---- MODULE Spec2Model ----
(***************************************************************************)
(* Offline layer of the planning-precedent PWA: the pending-actions queue   *)
(* kept in IndexedDB (frontend/src/lib/pwa.ts), its replay by the service   *)
(* worker on a background-sync event, and the worker's request              *)
(* interception strategies over the Cache API (the worker script, sw.js).   *)
(***************************************************************************)
EXTENDS Integers, Sequences, FiniteSets, TLC

\* ------------------------------------------------------------------ bounds
MaxCalls == 2      \* queueOfflineAction calls in one behaviour of SyncSpec
MaxRuns == 1       \* sync runs started in one behaviour of SyncSpec
MaxEnqueues == 3   \* queueOfflineAction calls in one behaviour of StoreSpec
MaxInFlight == 1   \* fetch handlers in flight at once in CacheSpec
MaxVer == 1        \* times the remote content changes in one behaviour of CacheSpec
MaxPuts == 1       \* cache.put() calls left running at once in CacheSpec
MaxPushes == 2     \* push events in one behaviour of PushSpec and ClickSpec
MaxSaves == 3      \* saveCaseOffline calls in one behaviour of SavedSpec
MaxOverlap == 2    \* cache.put() calls left running at once in OverlapSpec
MaxOverlapRuns == 2  \* sync runs started in one behaviour of TwoRunsSpec
MaxPrompts == 2      \* beforeinstallprompt events in one behaviour of PromptSpec
MaxShows == 2        \* showInstallPrompt calls in one behaviour of PromptSpec

\* --------------------------------------------------------------- constants
\* The kinds the worker replays.
WorkerKinds == {"saved-cases", "search-history"}
\* The kinds a page may pass to queueOfflineAction(type, data): the two the
\* worker knows, and the name the specification uses for a case save.
Types == WorkerKinds \cup {"saved-case-create"}
\* Payloads are opaque JSON documents.
Payloads == {"p1", "p2"}
\* In SyncSpec the n-th call carries a payload of its own.
PayloadOf(n) == <<"doc", n>>
\* HTTP statuses the remote may answer a replay with.
Statuses == {200, 500}

CACHE_NAME == "planning-precedent-v1"
\* A URL path is the sequence of its segments: '/api/v1/wards' is
\* <<"api", "v1", "wards">>.
OFFLINE_URL == <<"offline">>
PRECACHE_ASSETS ==
  {<<>>, <<"offline">>, <<"manifest.json">>, <<"icons", "icon-192x192.png">>,
   <<"icons", "icon-512x512.png">>}
API_CACHE_ROUTES ==
  {<<"api", "v1", "search", "development-types">>,
   <<"api", "v1", "search", "conservation-areas">>,
   <<"api", "v1", "wards">>,
   <<"api", "v1", "policies">>}

Req(origin, path, method, mode) ==
  [origin |-> origin, path |-> path, method |-> method, mode |-> mode]
\* The requests the pages make in CacheSpec: an allow-listed API read, an
\* API read and an API write outside the allow-list, a page load, a form
\* submission, a script, and a request to another origin.
Requests ==
  {Req("self", <<"api", "v1", "wards">>, "GET", "cors"),
   Req("self", <<"api", "v1", "users", "saved-cases">>, "GET", "cors"),
   Req("self", <<"api", "v1", "users", "saved-cases">>, "POST", "cors"),
   Req("self", <<"cases">>, "GET", "navigate"),
   Req("self", <<"cases">>, "POST", "navigate"),
   Req("self", <<"_next", "app.js">>, "GET", "cors"),
   Req("other", <<"fonts.css">>, "GET", "cors")}
\* The same-origin requests of Requests by the kind of their URL and mode,
\* and a static asset that install has put in the cache.
ApiRequests == {r \in Requests : r.origin = "self" /\ r.path[1] = "api"}
NavRequests == {r \in Requests : r.origin = "self" /\ r.path[1] # "api" /\ r.mode = "navigate"}
StaticRequests ==
  {r \in Requests : r.origin = "self" /\ r.path[1] # "api" /\ r.mode # "navigate"}
    \cup {Req("self", <<"manifest.json">>, "GET", "cors")}
\* For the dispatch of the fetch listener: every origin, URL kind, method and mode.
DispatchRequests ==
  {Req("self", p, m, md) : p \in {<<"api", "v1", "wards">>, <<"cases">>},
                           m \in {"GET", "POST"}, md \in {"navigate", "cors"}}
    \cup {Req("other", p, "GET", md) : p \in {<<"api", "v1", "wards">>, <<"cases">>},
                                       md \in {"navigate", "cors"}}
Paths == {r.path : r \in Requests \cup StaticRequests \cup DispatchRequests}
NoReq == Req("-", <<>>, "-", "-")
\* The statuses the remote answers page requests with.
PageStatuses == {200, 404}

VARIABLES
  online,      \* whether the network is reachable
  store,       \* committed records of object store 'pending-actions'
  keyGen,      \* the store's key generator (autoIncrement), last key given
  txq,         \* the page's add transactions created and not yet run, oldest first
  calls,       \* queueOfflineAction calls, in call order
  syncTags,    \* background-sync registrations not yet delivered
  runs,        \* sync runs (syncSavedCases / syncSearchHistory), in start order
  posts,       \* the POSTs the remote API has received
  enqLog,      \* records in the order the store added them
  delivered,   \* the tags of the sync events delivered to the worker
  lastList,    \* the latest direct call of getPendingActions and its result
  lastRemove,  \* the latest direct call of removePendingAction and its result
  cache,       \* the entries of the cache named CACHE_NAME: request key -> response
  puts,        \* cache.put() operations issued and not yet finished
  handlers,    \* the worker's fetch handlers in flight
  serverVer,   \* the version of the content the remote serves
  good,        \* per request key, the latest 2xx network response a handler returned
  putLog,      \* the methods of the requests cache.put() has been called with
  lastServed,  \* the latest answer a fetch handler gave
  phase,       \* the worker's lifecycle: "installed", "activating", "active"
  others,      \* the origin's other caches: name -> the request keys it holds
  doomed,      \* the names the activate handler has still to delete
  purged,      \* the names the activate handler has deleted
  precache,    \* install: per precache asset, "pending" or the status fetched (0: failed)
  onlineSeen,  \* the page saw an 'online' event while items the worker replays were queued
  saved,       \* committed records of object store 'saved-cases-offline'
  saveq,       \* the page's put transactions created and not yet run, oldest first
  saveLog,     \* saveCaseOffline calls, in call order
  shown,       \* the notifications displayed, in order
  clients,     \* the URLs of the open window clients
  lastClick,   \* the latest notification click and what the worker did
  control,     \* per open tab, the worker version that controls it
  skipped,     \* self.skipWaiting() has been called
  deferredPrompt,  \* pwa.ts: the captured beforeinstallprompt event, 0 for null
  prompts      \* the install prompts: events fired, dialogs, calls and their results

syncVars == <<store, keyGen, txq, calls, syncTags, runs, posts, enqLog,
              delivered, lastList, lastRemove>>

genVars == <<phase, others, doomed, purged, precache>>

pageVars == <<onlineSeen, saved, saveq, saveLog>>

pushVars == <<shown, clients, lastClick>>

ctlVars == <<control, skipped>>

promptVars == <<deferredPrompt, prompts>>

sideVars == <<pageVars, pushVars, ctlVars, promptVars>>

cacheVars == <<cache, puts, handlers, serverVer, good, putLog, lastServed, genVars>>

vars == <<online, syncVars, cacheVars, sideVars>>

\* ----------------------------------------------------------------- helpers
Ids(S) == {r.id : r \in S}

Ok(status) == status \in 200..299

RECURSIVE SortedById(_)
\* IDBObjectStore.getAll(): every record, in ascending key order.
SortedById(S) ==
  IF S = {} THEN <<>>
  ELSE LET m == CHOOSE r \in S : \A q \in S : r.id <= q.id
       IN <<m>> \o SortedById(S \ {m})

GetPendingActionsUnordered(s, type) ==
  LET OfType(a) == a.type = type
      asc == SelectSeq(SortedById(s), OfType)
  IN [i \in 1..Len(asc) |-> asc[Len(asc) + 1 - i]]

GetPendingActionsUnfiltered(s, type) == SortedById(s)

\* getPendingActions(db, type): getAll() filtered by a.type === type.
GetPendingActions(s, type) ==
  LET OfType(a) == a.type = type IN SelectSeq(SortedById(s), OfType)

RemovePendingActionKeep(s, id) == [store |-> s, rejected |-> FALSE]

RemovePendingActionUpTo(s, id) == [store |-> {r \in s : r.id > id}, rejected |-> FALSE]

RemovePendingActionStrict(s, id) ==
  IF id \in Ids(s) THEN [store |-> {r \in s : r.id # id}, rejected |-> FALSE]
  ELSE [store |-> s, rejected |-> TRUE]

\* removePendingAction(db, type, id): store.delete(id); IndexedDB reports
\* success whether or not a record with that key exists.
RemovePendingAction(s, id) ==
  [store |-> {r \in s : r.id # id}, rejected |-> FALSE]

NextKeyReuse(kg, s) == IF s = {} THEN 1 ELSE 1 + CHOOSE m \in Ids(s) : \A q \in Ids(s) : m >= q

\* The key the store gives the next added record: the key generator is
\* never decreased, not even by deletions (autoIncrement: true).
NextKey(kg, s) == kg + 1

\* `sync-${type}`
SyncTag(type) == "sync-" \o type

\* The JSON text of a document.
JsonText(doc) == <<"json", doc>>

JSONStringifyRecord(item) == JsonText(<<"record", item.id>>)

\* JSON.stringify(save.data), the body of the replay POST.
JSONStringify(item) == JsonText(item.data)

Endpoint(kind) ==
  IF kind = "saved-cases" THEN "/api/v1/users/saved-cases"
  ELSE "/api/v1/users/search-history"

\* The kinds whose tag the worker's sync listener answers.
SyncKinds(tag) ==
  (IF tag = "sync-saved-cases" THEN {"saved-cases"} ELSE {}) \cup
  (IF tag = "sync-search-history" THEN {"search-history"} ELSE {})

\* ------------------------------------------------- requests and the cache
\* url.pathname.startsWith('/api/')
StartsWithApi(path) == Len(path) >= 2 /\ path[1] = "api"

\* url.pathname.includes(route)
Includes(path, route) ==
  \E i \in 1..Len(path) :
    i + Len(route) - 1 <= Len(path) /\ SubSeq(path, i, i + Len(route) - 1) = route

\* shouldCache of handleApiRequest
ShouldCache(path) == \E route \in API_CACHE_ROUTES : Includes(path, route)

RouteClassAnyOrigin(req) ==
  IF StartsWithApi(req.path) THEN "api"
  ELSE IF req.mode = "navigate" THEN "nav"
  ELSE "static"

RouteClassNavFirst(req) ==
  IF req.origin # "self" THEN "passthrough"
  ELSE IF req.mode = "navigate" THEN "nav"
  ELSE IF StartsWithApi(req.path) THEN "api"
  ELSE "static"

\* The strategy the fetch listener gives a request: none for another origin.
RouteClass(req) ==
  IF req.origin # "self" THEN "passthrough"
  ELSE IF StartsWithApi(req.path) THEN "api"
  ELSE IF req.mode = "navigate" THEN "nav"
  ELSE "static"

\* What the remote serves at `path` when its content has version `ver`.
Body(path, ver) == <<path, ver>>

\* The key of a request in a cache: its URL and its method.
Key(req) == [path |-> req.path, method |-> req.method]

\* Cache.put(request, response): rejects with a TypeError for a request
\* whose method is not GET; otherwise the entry of the request is replaced.
CachePutAccepts(req) == req.method = "GET"

CachePut(c, req, resp) ==
  [k \in DOMAIN c \cup {Key(req)} |-> IF k = Key(req) THEN resp ELSE c[k]]

\* caches.match(request): the entry of a GET request, if there is one.
CacheHit(c, req) == req.method = "GET" /\ Key(req) \in DOMAIN c

Idle == [pc |-> "idle", req |-> NoReq, prior |-> FALSE]

\* No notification clicked yet.
NoClick ==
  [target |-> [abs |-> FALSE, path |-> <<>>], closed |-> FALSE, before |-> {}, focused |-> {},
   opened |-> {}]

\* The tabs a user may have open on the application.
Tabs == {"t1", "t2"}

\* No install prompt yet: no event fired, no dialog shown, no call made.
NoPrompts == [fired |-> 0, dialogs |-> <<>>, awaiting |-> {}, called |-> 0, log |-> <<>>,
              expect |-> FALSE]

\* No other cache.
NoCaches == [n \in {} |-> {}]

\* caches.keys(): the names of all the caches of the origin.
CachesKeys(o) == DOMAIN o \cup {CACHE_NAME}

StaleNamesAll(names) == names

\* cacheNames.filter((name) => name !== CACHE_NAME)
StaleNames(names) == {name \in names : name # CACHE_NAME}

\* The caches another version of the worker makes: one an older version
\* left behind is older than the current cache, one a newer version fills
\* while it installs is younger.
NewerNames == {"planning-precedent-v2"}
\* The content another version stored is not content this worker fetched.
ForeignVer == -1
OtherEntry(k) == [status |-> 200, body |-> Body(k.path, ForeignVer)]

\* What caches.match(request) finds: the global match goes through every
\* cache of the origin in the order of their creation and answers with the
\* first entry for the request, whatever the cache's name.
CachesMatch(c, o) ==
  LET older == UNION {o[n] : n \in DOMAIN o \ NewerNames}
      newer == UNION {o[n] : n \in DOMAIN o \cap NewerNames}
  IN [k \in older \cup DOMAIN c \cup newer |->
        IF k \in older THEN OtherEntry(k)
        ELSE IF k \in DOMAIN c THEN c[k]
        ELSE OtherEntry(k)]

Served(req, out, status, body) ==
  [req |-> req, out |-> out, status |-> status, body |-> body]

StaticLookupSkipped(c, req) == FALSE

\* handleStaticRequest: caches.match(request) before anything else.
StaticLookup(c, req) == CacheHit(c, req)

ApiFallbackRejects(c, req) ==
  IF req.method = "GET" /\ CacheHit(c, req)
  THEN Served(req, "cache", c[Key(req)].status, c[Key(req)].body)
  ELSE Served(req, "rejected", 0, <<>>)

\* The catch branch of handleApiRequest: the cached entry of a GET request,
\* else a synthesized 503 with a JSON error body.
ApiFallback(c, req) ==
  IF req.method = "GET" /\ CacheHit(c, req)
  THEN Served(req, "cache", c[Key(req)].status, c[Key(req)].body)
  ELSE Served(req, "offline-json", 503, <<"Offline">>)

OfflineRequest == Req("self", OFFLINE_URL, "GET", "cors")

NavFallbackOfflineFirst(c, req) ==
  IF CacheHit(c, OfflineRequest)
  THEN Served(req, "offline-doc", c[Key(OfflineRequest)].status, c[Key(OfflineRequest)].body)
  ELSE IF CacheHit(c, req)
  THEN Served(req, "cache", c[Key(req)].status, c[Key(req)].body)
  ELSE Served(req, "inline", 503, <<"<h1>Offline</h1>">>)

\* The catch branch of handleNavigationRequest: the cached page, else the
\* cached offline document, else inline HTML with status 503.
NavFallback(c, req) ==
  IF CacheHit(c, req)
  THEN Served(req, "cache", c[Key(req)].status, c[Key(req)].body)
  ELSE IF CacheHit(c, OfflineRequest)
  THEN Served(req, "offline-doc", c[Key(OfflineRequest)].status, c[Key(OfflineRequest)].body)
  ELSE Served(req, "inline", 503, <<"<h1>Offline</h1>">>)

StaticFailureSynthesized(c, req) == Served(req, "offline-json", 503, <<"Offline">>)

\* The catch branch of handleStaticRequest: throw error.
StaticFailure(c, req) == Served(req, "rejected", 0, <<>>)

\* The requests whose 2xx answer the strategies mean to cache.
Cacheable(req) ==
  /\ req.method = "GET"
  /\ \/ RouteClass(req) = "api" /\ ShouldCache(req.path)
     \/ RouteClass(req) = "nav"

Init ==
  /\ online = TRUE
  /\ store = {}
  /\ keyGen = 0
  /\ txq = <<>>
  /\ calls = <<>>
  /\ syncTags = {}
  /\ runs = <<>>
  /\ posts = {}
  /\ enqLog = <<>>
  /\ delivered = {}
  /\ lastList = [type |-> "-", items |-> <<>>]
  /\ lastRemove = [id |-> 0, found |-> FALSE, rejected |-> FALSE]
  /\ cache = [k \in {Key(Req("self", p, "GET", "cors")) : p \in PRECACHE_ASSETS}
                |-> [status |-> 200, body |-> Body(k.path, 0)]]
  /\ puts = {}
  /\ handlers = [h \in 1..MaxInFlight |-> Idle]
  /\ serverVer = 0
  /\ good = [p \in Paths |-> <<>>]
  /\ putLog = {}
  /\ lastServed = Served(NoReq, "none", 0, <<>>)
  /\ phase = "active"
  /\ others = NoCaches
  /\ doomed = {}
  /\ purged = {}
  /\ precache = [a \in PRECACHE_ASSETS |-> 200]
  /\ onlineSeen = FALSE
  /\ saved = {}
  /\ saveq = <<>>
  /\ saveLog = <<>>
  /\ shown = <<>>
  /\ clients = {}
  /\ lastClick = NoClick
  /\ control = [t \in Tabs |-> "this"]
  /\ skipped = TRUE
  /\ deferredPrompt = 0
  /\ prompts = NoPrompts

\* ------------------------------------------------- the page: enqueueing
\* queueOfflineAction(type, data). openOfflineDB() opens a native
\* IDBDatabase; store.add() is a request of a new readwrite transaction.
\* `await tx.complete` awaits a property a native IDBTransaction does not
\* have (undefined), so the function goes on in the same task, before the
\* transaction has run, to requestBackgroundSync(`sync-${type}`): without
\* background sync that answers false at once; otherwise it registers the
\* tag, and a failed registration is caught and answered with false. Then
\* the call resolves. A failed open rejects the call before anything is added.
\* dbOk: whether the database opens; regOk: whether the tag gets registered
\* (background sync is supported and sync.register succeeds).
QueueOfflineAction(type, data, dbOk, regOk) ==
  /\ IF ~dbOk
     THEN /\ calls' = Append(calls, "rejected")
          /\ UNCHANGED <<txq, syncTags>>
     ELSE /\ txq' = Append(txq, [call |-> Len(calls) + 1, type |-> type, data |-> data])
          /\ calls' = Append(calls, "resolved")
          /\ syncTags' = IF regOk THEN syncTags \cup {SyncTag(type)}
                         ELSE syncTags
  /\ UNCHANGED <<online, store, keyGen, runs, posts, enqLog, delivered, lastList, lastRemove, cacheVars, sideVars>>

\* The add request runs and its transaction commits: the store gives the
\* record its key. Transactions on one store run in the order of creation.
ExecAdd ==
  /\ txq # <<>>
  /\ LET t == Head(txq)
         k == NextKey(keyGen, store)
     IN /\ store' = store \cup {[id |-> k, type |-> t.type, data |-> t.data]}
        /\ keyGen' = k
        /\ enqLog' = Append(enqLog, [id |-> k, type |-> t.type, data |-> t.data,
                                     call |-> t.call])
  /\ txq' = Tail(txq)
  /\ UNCHANGED <<online, calls, syncTags, runs, posts, delivered, lastList, lastRemove, cacheVars, sideVars>>

\* ------------------------------------------------- the worker: sync runs
\* What the for-loop does after an item: the next listed item, or the end.
LoopNext(run) == IF Len(run.log) < Len(run.list) THEN "fetch" ELSE "done"

OnReplayErrorAbort(run) == "done"

\* The inner catch (console.error) of the loop body: the loop goes on.
OnReplayError(run) == LoopNext(run)

NewRun(kind, pc) ==
  [kind |-> kind, pc |-> pc, listed |-> FALSE, list |-> <<>>, log |-> <<>>]

AfterOpenUncaught(dbOk) == "list"

\* `const db = await openDatabase()` inside the outer try: the run goes on
\* to getPendingActions, or, the open having failed, ends in the outer catch.
AfterOpen(dbOk) == IF dbOk THEN "list" ELSE "done"

\* The 'sync' listener, which only an active worker is sent events for: a
\* tag it does not know starts nothing. A known tag
\* starts syncSavedCases / syncSearchHistory, which awaits openDatabase();
\* a failed open ends the run in the outer catch.
SyncEventWith(tag, dbOk) ==
  /\ phase = "active"
  /\ tag \in syncTags
  /\ online
  /\ syncTags' = syncTags \ {tag}
  /\ delivered' = delivered \cup {tag}
  /\ IF SyncKinds(tag) = {}
     THEN runs' = runs
     ELSE \E kind \in SyncKinds(tag) : runs' = Append(runs, NewRun(kind, AfterOpen(dbOk)))
  /\ UNCHANGED <<online, store, keyGen, txq, calls, posts, enqLog, lastList, lastRemove, cacheVars, sideVars>>

\* dbOk: whether openDatabase() resolves.
SyncEvent(tag) == \E dbOk \in BOOLEAN : SyncEventWith(tag, dbOk)

\* getPendingActions(db, kind): a readonly transaction, which runs after the
\* transactions created before it.
ListPending(r) ==
  /\ r \in DOMAIN runs
  /\ runs[r].pc = "list"
  /\ txq = <<>>
  /\ LET list == GetPendingActions(store, runs[r].kind)
     IN runs' = [runs EXCEPT ![r].list = list, ![r].listed = TRUE,
                             ![r].pc = IF list = <<>> THEN "done" ELSE "fetch"]
  /\ UNCHANGED <<online, store, keyGen, txq, calls, syncTags, posts, enqLog, delivered, lastList, lastRemove, cacheVars, sideVars>>

Post(r, item, status) ==
  [ep |-> Endpoint(runs[r].kind), body |-> JSONStringify(item), id |-> item.id,
   status |-> status, run |-> r]

\* What a run notes of an attempt: whether fetch rejected, else the status.
Attempt(item, threw, status) ==
  [id |-> item.id, threw |-> threw, status |-> status, removed |-> FALSE]

\* fetch(endpoint, {method: 'POST', body}) answered by the remote: fetch
\* resolves whatever the status, and removePendingAction is awaited next.
ReplayAnswered(r) ==
  /\ r \in DOMAIN runs
  /\ runs[r].pc = "fetch"
  /\ online
  /\ LET item == runs[r].list[Len(runs[r].log) + 1] IN
     \E status \in Statuses :
       /\ posts' = posts \cup {Post(r, item, status)}
       /\ runs' = [runs EXCEPT ![r].pc = "remove",
                               ![r].log = Append(@, Attempt(item, FALSE, status))]
  /\ UNCHANGED <<online, store, keyGen, txq, calls, syncTags, enqLog, delivered, lastList, lastRemove, cacheVars, sideVars>>

\* The remote applied the POST but its answer never arrived: fetch rejects.
ReplayLost(r) ==
  /\ r \in DOMAIN runs
  /\ runs[r].pc = "fetch"
  /\ online
  /\ LET item == runs[r].list[Len(runs[r].log) + 1]
         run2 == [runs[r] EXCEPT !.log = Append(@, Attempt(item, TRUE, 0))]
     IN /\ posts' = posts \cup {Post(r, item, 200)}
        /\ runs' = [runs EXCEPT ![r] = [run2 EXCEPT !.pc = OnReplayError(run2)]]
  /\ UNCHANGED <<online, store, keyGen, txq, calls, syncTags, enqLog, delivered, lastList, lastRemove, cacheVars, sideVars>>

\* The network is down: fetch rejects, nothing reaches the remote.
ReplayFailed(r) ==
  /\ r \in DOMAIN runs
  /\ runs[r].pc = "fetch"
  /\ ~online
  /\ LET item == runs[r].list[Len(runs[r].log) + 1]
         run2 == [runs[r] EXCEPT !.log = Append(@, Attempt(item, TRUE, 0))]
     IN runs' = [runs EXCEPT ![r] = [run2 EXCEPT !.pc = OnReplayError(run2)]]
  /\ UNCHANGED <<online, store, keyGen, txq, calls, syncTags, posts, enqLog, delivered, lastList, lastRemove, cacheVars, sideVars>>

\* await removePendingAction(db, kind, save.id): a readwrite transaction; a
\* rejection would be caught by the inner catch like a failed fetch.
RemoveReplayed(r) ==
  /\ r \in DOMAIN runs
  /\ runs[r].pc = "remove"
  /\ txq = <<>>
  /\ LET n == Len(runs[r].log)
         res == RemovePendingAction(store, runs[r].log[n].id)
     IN /\ store' = res.store
        /\ runs' = [runs EXCEPT ![r].log[n].removed = ~res.rejected,
                                ![r].pc = IF res.rejected THEN OnReplayError(runs[r])
                                          ELSE LoopNext(runs[r])]
  /\ UNCHANGED <<online, keyGen, txq, calls, syncTags, posts, enqLog, delivered, lastList, lastRemove, cacheVars, sideVars>>

\* ------------------------------------------------- environment
GoOnline ==
  /\ ~online
  /\ online' = TRUE
  /\ UNCHANGED <<syncVars, cacheVars, sideVars>>

GoOffline ==
  /\ online
  /\ online' = FALSE
  /\ UNCHANGED <<syncVars, cacheVars, sideVars>>

\* The browser stops: transactions that have not run are gone, and so are
\* the worker's runs in progress. Committed records, the key generator and
\* the sync registrations are persistent.
Restart ==
  /\ txq' = <<>>
  /\ runs' = [r \in DOMAIN runs |->
                IF runs[r].pc # "done" THEN [runs[r] EXCEPT !.pc = "killed"] ELSE runs[r]]
  /\ UNCHANGED <<online, store, keyGen, calls, syncTags, posts, enqLog, delivered, lastList, lastRemove, cacheVars, sideVars>>

\* ------------------------------------------------- the store's functions
\* getPendingActions(db, type) called on the store as it is.
CallGetPendingActions(type) ==
  /\ txq = <<>>
  /\ lastList' = [type |-> type, items |-> GetPendingActions(store, type)]
  /\ UNCHANGED <<online, store, keyGen, txq, calls, syncTags, runs, posts, enqLog,
                 delivered, lastRemove, cacheVars, sideVars>>

\* removePendingAction(db, type, id) called with any id.
CallRemovePendingAction(id) ==
  /\ txq = <<>>
  /\ LET res == RemovePendingAction(store, id)
     IN /\ store' = res.store
        /\ lastRemove' = [id |-> id, found |-> id \in Ids(store), rejected |-> res.rejected]
  /\ UNCHANGED <<online, keyGen, txq, calls, syncTags, runs, posts, enqLog,
                 delivered, lastList, cacheVars, sideVars>>

SyncNext ==
  \/ /\ Len(calls) < MaxCalls
     /\ \E type \in Types, dbOk \in BOOLEAN, regOk \in BOOLEAN :
          QueueOfflineAction(type, PayloadOf(Len(calls) + 1), dbOk, regOk)
  \/ ExecAdd
  \/ /\ Len(runs) < MaxRuns
     /\ \E tag \in {SyncTag(t) : t \in Types} : SyncEvent(tag)
  \/ \E r \in 1..MaxRuns : ListPending(r)
  \/ \E r \in 1..MaxRuns : ReplayAnswered(r)
  \/ \E r \in 1..MaxRuns : ReplayLost(r)
  \/ \E r \in 1..MaxRuns : ReplayFailed(r)
  \/ \E r \in 1..MaxRuns : RemoveReplayed(r)
  \/ GoOnline
  \/ GoOffline
  \/ Restart

SyncSpec == Init /\ [][SyncNext]_vars

\* The queue store on its own: enqueues, and direct calls of the two
\* functions the worker uses on it.
StoreNext ==
  \/ /\ Len(calls) < MaxEnqueues
     /\ \E type \in WorkerKinds, data \in Payloads, dbOk \in BOOLEAN :
          QueueOfflineAction(type, data, dbOk, FALSE)
  \/ ExecAdd
  \/ \E type \in WorkerKinds : CallGetPendingActions(type)
  \/ \E id \in 1..(keyGen + 1) : CallRemovePendingAction(id)

StoreSpec == Init /\ [][StoreNext]_vars

\* ------------------------------------------------- the worker: fetch events
\* The 'fetch' listener. A request of another origin is left to the browser.
\* handleStaticRequest looks in the cache before it goes to the network.
FetchEvent(h, req) ==
  /\ phase = "active"
  /\ handlers[h].pc = "idle"
  /\ LET class == RouteClass(req)
         prior == good[req.path] # <<>>
     IN IF class = "passthrough"
        THEN /\ lastServed' = Served(req, "passthrough", 0, <<>>)
             /\ UNCHANGED handlers
        ELSE IF class = "static" /\ StaticLookup(CachesMatch(cache, others), req)
        THEN /\ lastServed' = Served(req, "cache-first",
                                     CachesMatch(cache, others)[Key(req)].status,
                                     CachesMatch(cache, others)[Key(req)].body)
             /\ UNCHANGED handlers
        ELSE /\ handlers' = [handlers EXCEPT ![h] = [pc |-> class, req |-> req,
                                                     prior |-> prior]]
             /\ UNCHANGED lastServed
  /\ UNCHANGED <<online, syncVars, cache, puts, serverVer, good, putLog, genVars, sideVars>>

\* Whether the strategy calls cache.put for the network's answer.
WillPutAnyStatus(class, req, status) ==
  CASE class = "api" -> ShouldCache(req.path) /\ req.method = "GET"
    [] class = "nav" -> TRUE
    [] class = "static" -> req.method = "GET"

WillPutUnlisted(class, req, status) ==
  CASE class = "api" -> req.method = "GET" /\ Ok(status)
    [] class = "nav" -> Ok(status)
    [] class = "static" -> Ok(status) /\ req.method = "GET"

WillPut(class, req, status) ==
  CASE class = "api" -> ShouldCache(req.path) /\ req.method = "GET" /\ Ok(status)
    [] class = "nav" -> Ok(status)
    [] class = "static" -> Ok(status) /\ req.method = "GET"

\* await fetch(request) resolves: the strategy calls cache.put(request,
\* networkResponse.clone()) without awaiting it and returns the response.
NetworkAnswersUpTo(h, status, maxPuts) ==
  /\ handlers[h].pc \in {"api", "nav", "static"}
  /\ online
  /\ LET req == handlers[h].req
         class == handlers[h].pc
         body == Body(req.path, serverVer)
         put == WillPut(class, req, status)
     IN /\ (put /\ CachePutAccepts(req)) => Cardinality(puts) < maxPuts
        /\ putLog' = IF put THEN putLog \cup {req.method} ELSE putLog
        /\ puts' = IF put /\ CachePutAccepts(req)
                   THEN puts \cup {[req |-> req, resp |-> [status |-> status, body |-> body]]}
                   ELSE puts
        /\ good' = IF req.method = "GET" /\ Ok(status) THEN [good EXCEPT ![req.path] = body]
                   ELSE good
        /\ lastServed' = Served(req, "network", status, body)
  /\ handlers' = [handlers EXCEPT ![h] = Idle]
  /\ UNCHANGED <<online, syncVars, cache, serverVer, genVars, sideVars>>

NetworkAnswers(h, status) == NetworkAnswersUpTo(h, status, MaxPuts)

\* await fetch(request) rejects: the catch branch of the strategy.
NetworkFails(h) ==
  /\ handlers[h].pc \in {"api", "nav", "static"}
  /\ ~online
  /\ LET req == handlers[h].req
         class == handlers[h].pc
     IN lastServed' =
          CASE class = "api" -> ApiFallback(CachesMatch(cache, others), req)
            [] class = "nav" -> NavFallback(CachesMatch(cache, others), req)
            [] class = "static" -> StaticFailure(CachesMatch(cache, others), req)
  /\ handlers' = [handlers EXCEPT ![h] = Idle]
  /\ UNCHANGED <<online, syncVars, cache, puts, serverVer, good, putLog, genVars, sideVars>>

\* A cache.put() that was left running finishes: the entry is written.
PutCompletes(p) ==
  /\ p \in puts
  /\ cache' = CachePut(cache, p.req, p.resp)
  /\ puts' = puts \ {p}
  /\ UNCHANGED <<online, syncVars, handlers, serverVer, good, putLog, lastServed, genVars, sideVars>>

\* The remote's content changes.
ServerUpdate ==
  /\ serverVer' = serverVer + 1
  /\ UNCHANGED <<online, syncVars, cache, puts, handlers, good, putLog, lastServed, genVars, sideVars>>

\* The origin's cache storage is cleared (site data, developer tools): the
\* worker stays active with no cache entry left.
CacheStorageCleared ==
  /\ phase = "active"
  /\ cache # NoCaches
  /\ cache' = NoCaches
  /\ UNCHANGED <<online, syncVars, puts, handlers, serverVer, good, putLog, lastServed,
                 genVars, sideVars>>

\* ------------------------------------------------- the worker: activation
\* caches.delete(name): the cache of that name and its entries are gone.
CachesDelete(o, name) == [n \in DOMAIN o \ {name} |-> o[n]]

\* The 'activate' listener: caches.keys(), then a caches.delete() for every
\* name the filter keeps.
\* Before the event is fired the runtime makes the worker the active one of
\* its registration, which it does once no tab is controlled by the version
\* before or the worker has called skipWaiting(); the tabs that version
\* controlled are controlled by this worker from then on.
ActivateStarts ==
  /\ phase = "installed"
  /\ skipped \/ \A t \in Tabs : control[t] # "old"
  /\ phase' = "activating"
  /\ doomed' = StaleNames(CachesKeys(others))
  /\ control' = [t \in Tabs |-> IF control[t] = "old" THEN "this" ELSE control[t]]
  /\ UNCHANGED <<online, syncVars, cache, puts, handlers, serverVer, good, putLog,
                 lastServed, others, purged, precache, pageVars, pushVars, skipped,
                 promptVars>>

\* One of the caches.delete(name) calls of the activate listener settles.
DeleteStale(name) ==
  /\ phase \in {"activating", "active"}
  /\ name \in doomed
  /\ doomed' = doomed \ {name}
  /\ purged' = purged \cup {name}
  /\ others' = CachesDelete(others, name)
  /\ cache' = IF name = CACHE_NAME THEN NoCaches ELSE cache
  /\ UNCHANGED <<online, syncVars, puts, handlers, serverVer, good, putLog, lastServed,
                 phase, precache, sideVars>>

\* self.clients.claim(): every open tab in scope is controlled by this worker.
Claim(ctl) == [t \in DOMAIN ctl |-> "this"]

\* Promise.all resolves and self.clients.claim() follows: the worker is active.
ActivateCompletes ==
  /\ phase = "activating"
  /\ doomed = {}
  /\ phase' = "active"
  /\ control' = Claim(control)
  /\ UNCHANGED <<online, syncVars, cache, puts, handlers, serverVer, good, putLog,
                 lastServed, others, doomed, purged, precache, pageVars, pushVars, skipped,
                 promptVars>>

\* One of the caches.delete(name) calls rejects: Promise.all rejects, the
\* then() with clients.claim() is skipped and the promise given to waitUntil
\* rejects. The runtime makes an activating worker active all the same.
DeleteFails(name) ==
  /\ phase = "activating"
  /\ name \in doomed
  /\ doomed' = doomed \ {name}
  /\ phase' = "active"
  /\ UNCHANGED <<online, syncVars, cache, puts, handlers, serverVer, good, putLog,
                 lastServed, others, purged, precache, sideVars>>

\* A tab loads a page of the application: the active worker controls it.
Navigate(t) ==
  /\ phase = "active"
  /\ control[t] # "this"
  /\ control' = [control EXCEPT ![t] = "this"]
  /\ UNCHANGED <<online, syncVars, cacheVars, pageVars, pushVars, skipped, promptVars>>

\* A tab is closed or leaves the application.
TabCloses(t) ==
  /\ control[t] # "none"
  /\ control' = [control EXCEPT ![t] = "none"]
  /\ UNCHANGED <<online, syncVars, cacheVars, pageVars, pushVars, skipped, promptVars>>

\* Fetch events for the requests of R, and what the environment does.
CacheNextOver(R) ==
  \/ \E h \in 1..MaxInFlight, req \in R : FetchEvent(h, req)
  \/ \E h \in 1..MaxInFlight, status \in PageStatuses : NetworkAnswers(h, status)
  \/ \E h \in 1..MaxInFlight : NetworkFails(h)
  \/ \E p \in puts : PutCompletes(p)
  \/ serverVer < MaxVer /\ ServerUpdate
  \/ GoOnline
  \/ GoOffline

CacheNext ==
  \/ \E h \in 1..MaxInFlight, req \in Requests : FetchEvent(h, req)
  \/ \E h \in 1..MaxInFlight, status \in PageStatuses : NetworkAnswers(h, status)
  \/ \E h \in 1..MaxInFlight : NetworkFails(h)
  \/ \E p \in puts : PutCompletes(p)
  \/ serverVer < MaxVer /\ ServerUpdate
  \/ GoOnline
  \/ GoOffline

CacheSpec == Init /\ [][CacheNext]_vars

\* The API strategy on its own.
ApiNext == CacheNextOver(ApiRequests)

ApiSpec == Init /\ [][ApiNext]_vars

\* The navigation strategy on its own, with the cache storage cleared at any time.
NavNext == CacheNextOver(NavRequests) \/ CacheStorageCleared

NavSpec == Init /\ [][NavNext]_vars

\* The two network-first strategies together: an allow-listed API read and
\* a page load.
NetFirstRequests ==
  {Req("self", <<"api", "v1", "wards">>, "GET", "cors"), Req("self", <<"cases">>, "GET", "navigate")}

NetFirstNext == CacheNextOver(NetFirstRequests)

NetFirstSpec == Init /\ [][NetFirstNext]_vars

\* The static strategy on its own.
StaticNext == CacheNextOver(StaticRequests)

StaticSpec == Init /\ [][StaticNext]_vars

\* The dispatch of the fetch listener over every kind of request, the
\* remote's content staying as it is.
DispatchNext ==
  \/ \E h \in 1..MaxInFlight, req \in DispatchRequests : FetchEvent(h, req)
  \/ \E h \in 1..MaxInFlight, status \in PageStatuses : NetworkAnswers(h, status)
  \/ \E h \in 1..MaxInFlight : NetworkFails(h)
  \/ \E p \in puts : PutCompletes(p)
  \/ GoOnline
  \/ GoOffline

DispatchSpec == Init /\ [][DispatchNext]_vars

\* The worker from installed to active, over the caches it may find.
OldNames == {"planning-precedent-v0", "planning-precedent-beta"}
OldKeys == {Key(Req("self", <<"cases">>, "GET", "navigate")),
            Key(Req("self", <<"offline">>, "GET", "cors"))}

ActivateInit ==
  /\ online \in BOOLEAN
  /\ store = {}
  /\ keyGen = 0
  /\ txq = <<>>
  /\ calls = <<>>
  /\ syncTags = {}
  /\ runs = <<>>
  /\ posts = {}
  /\ enqLog = <<>>
  /\ delivered = {}
  /\ lastList = [type |-> "-", items |-> <<>>]
  /\ lastRemove = [id |-> 0, found |-> FALSE, rejected |-> FALSE]
  /\ cache = [k \in {Key(Req("self", p, "GET", "cors")) : p \in PRECACHE_ASSETS}
                |-> [status |-> 200, body |-> Body(k.path, 0)]]
  /\ puts = {}
  /\ handlers = [h \in 1..MaxInFlight |-> Idle]
  /\ serverVer = 0
  /\ good = [p \in Paths |-> <<>>]
  /\ putLog = {}
  /\ lastServed = Served(NoReq, "none", 0, <<>>)
  /\ phase = "installed"
  /\ \E names \in SUBSET OldNames : others \in [names -> SUBSET OldKeys]
  /\ doomed = {}
  /\ purged = {}
  /\ precache = [a \in PRECACHE_ASSETS |-> 200]
  /\ onlineSeen = FALSE
  /\ saved = {}
  /\ saveq = <<>>
  /\ saveLog = <<>>
  /\ shown = <<>>
  /\ clients = {}
  /\ lastClick = NoClick
  /\ control = [t \in Tabs |-> "none"]
  /\ skipped = TRUE
  /\ deferredPrompt = 0
  /\ prompts = NoPrompts

ActivateNext ==
  \/ ActivateStarts
  \/ \E name \in OldNames \cup {CACHE_NAME} : DeleteStale(name)
  \/ ActivateCompletes

ActivateSpec == ActivateInit /\ [][ActivateNext]_vars

\* ------------------------------------------------- the worker: install
\* A precache fetch that has not settled yet, and one that failed without a
\* response.
Pending == -1
NetworkError == 0

\* The entry cache.addAll() stores for a fetched asset.
PrecacheKey(asset) == Key(Req("self", asset, "GET", "cors"))

AddAllBestEffort(c, fetched) ==
  LET got == {a \in DOMAIN fetched : Ok(fetched[a])}
  IN [k \in DOMAIN c \cup {PrecacheKey(a) : a \in got} |->
        IF \E a \in got : k = PrecacheKey(a)
        THEN [status |-> fetched[k.path], body |-> Body(k.path, 0)]
        ELSE c[k]]

\* cache.addAll(PRECACHE_ASSETS): the responses are stored together, and only
\* if every one of them is ok; otherwise the promise rejects and the cache is
\* left as it was.
AddAll(c, fetched) ==
  IF \A a \in DOMAIN fetched : Ok(fetched[a])
  THEN [k \in DOMAIN c \cup {PrecacheKey(a) : a \in DOMAIN fetched} |->
          IF \E a \in DOMAIN fetched : k = PrecacheKey(a)
          THEN [status |-> fetched[k.path], body |-> Body(k.path, 0)]
          ELSE c[k]]
  ELSE c

\* One of the fetches cache.addAll() makes is answered.
PrecacheAnswered(asset, status) ==
  /\ phase = "installing"
  /\ precache[asset] = Pending
  /\ online
  /\ precache' = [precache EXCEPT ![asset] = status]
  /\ UNCHANGED <<online, syncVars, cache, puts, handlers, serverVer, good, putLog,
                 lastServed, phase, others, doomed, purged, sideVars>>

\* One of the fetches cache.addAll() makes fails without a response.
PrecacheFails(asset) ==
  /\ phase = "installing"
  /\ precache[asset] = Pending
  /\ ~online
  /\ precache' = [precache EXCEPT ![asset] = NetworkError]
  /\ UNCHANGED <<online, syncVars, cache, puts, handlers, serverVer, good, putLog,
                 lastServed, phase, others, doomed, purged, sideVars>>

\* cache.addAll() settles, and with it the promise given to waitUntil: when
\* it resolves, self.skipWaiting() follows and the installed worker goes on
\* to activate; when it rejects (as soon as one fetch has failed or was
\* answered with a status that is not ok), skipWaiting() is never reached and
\* the worker is discarded.
InstallSettles ==
  /\ phase = "installing"
  /\ \/ \A a \in PRECACHE_ASSETS : precache[a] # Pending
     \/ \E a \in PRECACHE_ASSETS : precache[a] # Pending /\ ~Ok(precache[a])
  /\ cache' = AddAll(cache, precache)
  /\ phase' = IF \A a \in PRECACHE_ASSETS : Ok(precache[a]) THEN "installed" ELSE "redundant"
  /\ skipped' = (skipped \/ \A a \in PRECACHE_ASSETS : Ok(precache[a]))
  /\ UNCHANGED <<online, syncVars, puts, handlers, serverVer, good, putLog,
                 lastServed, others, doomed, purged, precache, pageVars, pushVars, control,
                 promptVars>>

\* A worker being installed for the first time: caches.open() has made the
\* cache, nothing is in it.
InstallInit ==
  /\ online \in BOOLEAN
  /\ store = {}
  /\ keyGen = 0
  /\ txq = <<>>
  /\ calls = <<>>
  /\ syncTags = {}
  /\ runs = <<>>
  /\ posts = {}
  /\ enqLog = <<>>
  /\ delivered = {}
  /\ lastList = [type |-> "-", items |-> <<>>]
  /\ lastRemove = [id |-> 0, found |-> FALSE, rejected |-> FALSE]
  /\ cache = NoCaches
  /\ puts = {}
  /\ handlers = [h \in 1..MaxInFlight |-> Idle]
  /\ serverVer = 0
  /\ good = [p \in Paths |-> <<>>]
  /\ putLog = {}
  /\ lastServed = Served(NoReq, "none", 0, <<>>)
  /\ phase = "installing"
  /\ others = NoCaches
  /\ doomed = {}
  /\ purged = {}
  /\ precache = [a \in PRECACHE_ASSETS |-> Pending]
  /\ onlineSeen = FALSE
  /\ saved = {}
  /\ saveq = <<>>
  /\ saveLog = <<>>
  /\ shown = <<>>
  /\ clients = {}
  /\ lastClick = NoClick
  /\ control = [t \in Tabs |-> "none"]
  /\ skipped = FALSE
  /\ deferredPrompt = 0
  /\ prompts = NoPrompts

\* Install, activation, and a page that queues saved cases and asks for
\* their sync while the worker's life goes on.
InstallNext ==
  \/ \E a \in PRECACHE_ASSETS, status \in PageStatuses : PrecacheAnswered(a, status)
  \/ \E a \in PRECACHE_ASSETS : PrecacheFails(a)
  \/ InstallSettles
  \/ ActivateStarts
  \/ ActivateCompletes
  \/ Len(calls) < MaxCalls /\ QueueOfflineAction("saved-cases", PayloadOf(Len(calls) + 1), TRUE, TRUE)
  \/ ExecAdd
  \/ Len(runs) < MaxRuns /\ SyncEvent(SyncTag("saved-cases"))
  \/ \E r \in 1..MaxRuns : ListPending(r)
  \/ \E r \in 1..MaxRuns : ReplayAnswered(r)
  \/ \E r \in 1..MaxRuns : RemoveReplayed(r)
  \/ GoOnline
  \/ GoOffline

InstallSpec == InstallInit /\ [][InstallNext]_vars

\* ------------------------------------------------- the worker: push
\* The four members of the literal the push listener starts from.
NoteFields == {"title", "body", "icon", "badge"}
Defaults ==
  [f \in NoteFields |->
     CASE f = "title" -> "Planning Precedent AI"
       [] f = "body" -> "New notification"
       [] f = "icon" -> "/icons/icon-192x192.png"
       [] f = "badge" -> "/icons/badge-72x72.png"]

\* A URL string: absolute (scheme and origin written out) or relative to
\* the origin, with its path.
Url(abs, path) == [abs |-> abs, path |-> path]
\* What the browser makes of a URL string handed to it by the worker.
Resolve(url) == Url(TRUE, url.path)
Root == Url(FALSE, <<>>)

\* A JSON object is a function from the member names it has to their values.
ValueOf(f) == "payload " \o f
Doc(fs) == [f \in fs |-> ValueOf(f)]
DocWithUrl(fs, url) == [f \in fs \cup {"data"} |-> IF f = "data" THEN [url |-> url] ELSE ValueOf(f)]

\* event.data: null, or bytes that are the text of a JSON object, or bytes
\* that are some other text.
NoPayload == [kind |-> "none", text |-> "", doc |-> Doc({})]
TextPayload(text) == [kind |-> "text", text |-> text, doc |-> Doc({})]
JsonPayload(doc) == [kind |-> "json", text |-> "", doc |-> doc]
PushPayloads ==
  {NoPayload} \cup {TextPayload(t) : t \in {"Hello", "{broken"}}
    \cup {JsonPayload(Doc(fs)) : fs \in SUBSET NoteFields}

\* Reading a member an object does not have gives undefined.
Undefined == "(undefined)"
Get(doc, f) == IF f \in DOMAIN doc THEN doc[f] ELSE Undefined
\* a || b on strings: undefined and the empty string are falsy.
OrElse(a, b) == IF a \in {Undefined, ""} THEN b ELSE a

PushDataTextDropped(payload) ==
  IF payload.kind = "json" THEN payload.doc ELSE Defaults

\* Lines 273-286: data starts as the literal; event.data.json() replaces it
\* whole; when json() throws, only data.body is set, to event.data.text().
PushData(payload) ==
  CASE payload.kind = "none" -> Defaults
    [] payload.kind = "json" -> payload.doc
    [] payload.kind = "text" -> [Defaults EXCEPT !["body"] = payload.text]

\* showNotification(title, options) converts its arguments: an undefined
\* title is the string "undefined", an undefined options.body is absent and
\* the body is the empty string.
ShownTitle(x) == IF x = Undefined THEN "undefined" ELSE x
ShownBody(x) == IF x = Undefined THEN "" ELSE x

\* Lines 288-299: the notification displayed for data.
Notification(data) ==
  [title |-> ShownTitle(Get(data, "title")),
   body |-> ShownBody(Get(data, "body")),
   icon |-> OrElse(Get(data, "icon"), "/icons/icon-192x192.png"),
   badge |-> OrElse(Get(data, "badge"), "/icons/badge-72x72.png"),
   data |-> IF "data" \in DOMAIN data THEN data["data"] ELSE Doc({})]

\* The 'push' listener.
Push(payload) ==
  /\ phase = "active"
  /\ shown' = Append(shown, [payload |-> payload, note |-> Notification(PushData(payload)),
                             open |-> TRUE])
  /\ UNCHANGED <<online, syncVars, cacheVars, pageVars, clients, lastClick, ctlVars, promptVars>>

PushNext ==
  \/ Len(shown) < MaxPushes /\ \E payload \in PushPayloads : Push(payload)

PushSpec == Init /\ [][PushNext]_vars

\* ------------------------------------------------- the worker: notification click
\* The pages a window can display, as client.url reports them: absolute.
ClientUrls == {Url(TRUE, <<>>), Url(TRUE, <<"cases">>)}
\* Pushes with and without data.url, the URL written relative to the origin
\* or in full.
ClickPayloads ==
  {NoPayload, JsonPayload(Doc({"title"})),
   JsonPayload(DocWithUrl({"title"}, Url(FALSE, <<"cases">>))),
   JsonPayload(DocWithUrl({"title"}, Url(TRUE, <<"cases">>)))}

\* event.notification.data?.url || '/'
UrlToOpen(note) == IF "url" \in DOMAIN note.data THEN note.data.url ELSE Root

\* The test of line 315: client.url === urlToOpen compares the two strings.
ClientMatches(client, urlToOpen) == client = urlToOpen

\* The 'notificationclick' listener on the i-th notification: close it, then
\* focus the first window client whose url equals urlToOpen, or, when there
\* is none, clients.openWindow(urlToOpen).
NotificationClick(i) ==
  /\ phase = "active"
  /\ i \in DOMAIN shown
  /\ shown[i].open
  /\ shown' = [shown EXCEPT ![i].open = FALSE]
  /\ LET urlToOpen == UrlToOpen(shown[i].note)
         matching == {c \in clients : ClientMatches(c, urlToOpen)}
     IN IF matching # {}
        THEN /\ \E c \in matching :
                  lastClick' = [target |-> urlToOpen, closed |-> TRUE, before |-> clients,
                                focused |-> {c}, opened |-> {}]
             /\ clients' = clients
        ELSE /\ lastClick' = [target |-> urlToOpen, closed |-> TRUE, before |-> clients,
                              focused |-> {}, opened |-> {Resolve(urlToOpen)}]
             /\ clients' = clients \cup {Resolve(urlToOpen)}
  /\ UNCHANGED <<online, syncVars, cacheVars, pageVars, ctlVars, promptVars>>

\* The user opens a window of the application, or closes one.
WindowOpens(url) ==
  /\ url \notin clients
  /\ clients' = clients \cup {url}
  /\ UNCHANGED <<online, syncVars, cacheVars, pageVars, shown, lastClick, ctlVars, promptVars>>

WindowCloses(url) ==
  /\ url \in clients
  /\ clients' = clients \ {url}
  /\ UNCHANGED <<online, syncVars, cacheVars, pageVars, shown, lastClick, ctlVars, promptVars>>

ClickNext ==
  \/ Len(shown) < MaxPushes /\ \E payload \in ClickPayloads : Push(payload)
  \/ \E i \in 1..MaxPushes : NotificationClick(i)
  \/ \E url \in ClientUrls : WindowOpens(url)
  \/ \E url \in ClientUrls : WindowCloses(url)

ClickSpec == Init /\ [][ClickNext]_vars

\* ------------------------------------------------- the page: saved cases
\* The cases a page saves: a planning reference and the rest of the case;
\* and an object that has no reference member.
References == {"2023/0001/P", "2023/0002/P"}
CaseData == [reference : References, summary : {"a", "b"}] \cup [summary : {"a"}]

\* { ...caseData, savedAt: Date.now() }, the clock read at the n-th call.
SavedRecord(caseData, n) ==
  [f \in DOMAIN caseData \cup {"savedAt"} |-> IF f = "savedAt" THEN n ELSE caseData[f]]

\* The store has keyPath 'reference' and no key generator: a value without
\* that member has no key.
HasKey(rec) == "reference" \in DOMAIN rec

StorePutBeside(s, rec) == s \cup {rec}

\* store.put(value): the record with the value's key is replaced, or the
\* value is added when there is none.
StorePut(s, rec) == {x \in s : x.reference # rec.reference} \cup {rec}

\* saveCaseOffline(caseData). A failed open rejects the call. put() of a
\* value without a key throws at once and the call rejects; otherwise the
\* put is a request of the new readwrite transaction, and the call resolves
\* after `await tx.complete` (undefined on a native transaction) without
\* waiting for it.
SaveCaseOffline(caseData, dbOk) ==
  /\ LET n == Len(saveLog) + 1
         rec == SavedRecord(caseData, n)
     IN IF dbOk /\ HasKey(rec)
        THEN /\ saveq' = Append(saveq, rec)
             /\ saveLog' = Append(saveLog, [rec |-> rec, outcome |-> "resolved"])
        ELSE /\ saveq' = saveq
             /\ saveLog' = Append(saveLog, [rec |-> rec, outcome |-> "rejected"])
  /\ UNCHANGED <<online, syncVars, cacheVars, onlineSeen, saved, pushVars, ctlVars, promptVars>>

\* The oldest put transaction runs and commits; transactions on one store
\* run in the order of their creation.
ExecPut ==
  /\ saveq # <<>>
  /\ saved' = StorePut(saved, Head(saveq))
  /\ saveq' = Tail(saveq)
  /\ UNCHANGED <<online, syncVars, cacheVars, onlineSeen, saveLog, pushVars, ctlVars, promptVars>>

SavedNext ==
  \/ Len(saveLog) < MaxSaves /\ \E caseData \in CaseData, dbOk \in BOOLEAN :
                                   SaveCaseOffline(caseData, dbOk)
  \/ ExecPut

SavedSpec == Init /\ [][SavedNext]_vars

\* ------------------------------------------------- the database cannot be opened
\* One saved case was queued, and its sync registered, while the database
\* could still be opened; from then on every indexedDB.open fails, in the
\* page and in the worker.
QueuedBefore == [id |-> 1, type |-> "saved-cases", data |-> PayloadOf(1)]

DegradedInit ==
  /\ online \in BOOLEAN
  /\ store = {QueuedBefore}
  /\ keyGen = 1
  /\ txq = <<>>
  /\ calls = <<"resolved">>
  /\ syncTags = {SyncTag("saved-cases")}
  /\ runs = <<>>
  /\ posts = {}
  /\ enqLog = <<[id |-> 1, type |-> "saved-cases", data |-> PayloadOf(1), call |-> 1]>>
  /\ delivered = {}
  /\ lastList = [type |-> "-", items |-> <<>>]
  /\ lastRemove = [id |-> 0, found |-> FALSE, rejected |-> FALSE]
  /\ cache = [k \in {Key(Req("self", p, "GET", "cors")) : p \in PRECACHE_ASSETS}
                |-> [status |-> 200, body |-> Body(k.path, 0)]]
  /\ puts = {}
  /\ handlers = [h \in 1..MaxInFlight |-> Idle]
  /\ serverVer = 0
  /\ good = [p \in Paths |-> <<>>]
  /\ putLog = {}
  /\ lastServed = Served(NoReq, "none", 0, <<>>)
  /\ phase = "active"
  /\ others = NoCaches
  /\ doomed = {}
  /\ purged = {}
  /\ precache = [a \in PRECACHE_ASSETS |-> 200]
  /\ onlineSeen = FALSE
  /\ saved = {}
  /\ saveq = <<>>
  /\ saveLog = <<>>
  /\ shown = <<>>
  /\ clients = {}
  /\ lastClick = NoClick
  /\ control = [t \in Tabs |-> "this"]
  /\ skipped = TRUE
  /\ deferredPrompt = 0
  /\ prompts = NoPrompts

\* One request for each strategy.
DegradedRequests ==
  {Req("self", <<"api", "v1", "wards">>, "GET", "cors"),
   Req("self", <<"cases">>, "GET", "navigate"),
   Req("self", <<"_next", "app.js">>, "GET", "cors"),
   Req("self", <<"manifest.json">>, "GET", "cors")}

\* The page goes on fetching (one request at a time), enqueueing and saving,
\* and the runtime delivers sync events, with no open succeeding.
DegradedNext ==
  \/ \E req \in DegradedRequests : FetchEvent(1, req)
  \/ \E status \in PageStatuses : NetworkAnswers(1, status)
  \/ NetworkFails(1)
  \/ \E p \in puts : PutCompletes(p)
  \/ GoOnline
  \/ GoOffline
  \/ Len(calls) < MaxCalls /\
        QueueOfflineAction("saved-cases", PayloadOf(Len(calls) + 1), FALSE, TRUE)
  \/ Len(saveLog) < MaxRuns /\
        SaveCaseOffline([reference |-> "2023/0001/P", summary |-> "a"], FALSE)
  \/ Len(runs) < MaxRuns /\ SyncEventWith(SyncTag("saved-cases"), FALSE)

DegradedSpec == DegradedInit /\ [][DegradedNext]_vars

\* ------------------------------------------------- reconciliation and the two signals
\* The network returns while a page is open: the window's 'online' event runs
\* the listeners added through addConnectionListeners, handleOnline of the
\* offline page and of PWAProvider. They set the page's online flag and
\* banner (the offline page also goes to '/'); they call neither the worker
\* nor the queue.
ConnectionRestored ==
  /\ ~online
  /\ online' = TRUE
  /\ onlineSeen' = (onlineSeen \/ \E x \in store : x.type \in WorkerKinds)
  /\ UNCHANGED <<syncVars, cacheVars, saved, saveq, saveLog, pushVars, ctlVars, promptVars>>

LiveNext ==
  \/ Len(calls) < MaxCalls /\ \E type \in WorkerKinds, regOk \in BOOLEAN :
        QueueOfflineAction(type, PayloadOf(Len(calls) + 1), TRUE, regOk)
  \/ ExecAdd
  \/ Len(runs) < MaxRuns /\ \E tag \in {SyncTag(t) : t \in WorkerKinds} : SyncEvent(tag)
  \/ \E r \in 1..MaxRuns : ListPending(r)
  \/ \E r \in 1..MaxRuns : ReplayAnswered(r)
  \/ \E r \in 1..MaxRuns : ReplayFailed(r)
  \/ \E r \in 1..MaxRuns : RemoveReplayed(r)
  \/ ConnectionRestored
  \/ GoOffline

\* The network comes back; transactions run, the worker's steps are taken,
\* and the runtime delivers a registered sync once the network is there,
\* again and again if need be.
LiveFairness ==
  /\ WF_vars(ConnectionRestored)
  /\ WF_vars(ExecAdd)
  /\ SF_vars(Len(runs) < MaxRuns /\ \E tag \in {SyncTag(t) : t \in WorkerKinds} : SyncEvent(tag))
  /\ \A r \in 1..MaxRuns :
       /\ WF_vars(ListPending(r))
       /\ WF_vars(ReplayAnswered(r) \/ ReplayFailed(r))
       /\ WF_vars(RemoveReplayed(r))

SyncLiveSpec == Init /\ [][LiveNext]_vars /\ LiveFairness

\* ------------------------------------------------- overlapping cache writes
\* The two network-first cacheable routes, fetched again while the cache
\* writes of earlier fetches are still running.
OverlapRequests ==
  {Req("self", <<"api", "v1", "wards">>, "GET", "cors"),
   Req("self", <<"cases">>, "GET", "navigate")}

OverlapNext ==
  \/ \E h \in 1..MaxInFlight, req \in OverlapRequests : FetchEvent(h, req)
  \/ \E h \in 1..MaxInFlight, status \in PageStatuses : NetworkAnswersUpTo(h, status, MaxOverlap)
  \/ \E h \in 1..MaxInFlight : NetworkFails(h)
  \/ \E p \in puts : PutCompletes(p)
  \/ serverVer < MaxVer /\ ServerUpdate
  \/ GoOnline
  \/ GoOffline

OverlapSpec == Init /\ [][OverlapNext]_vars

\* ------------------------------------------------- overlapping sync runs
\* Saved cases are queued, each enqueue registering the sync again, and the
\* runtime delivers a sync event while the run of an earlier one is still
\* going: the listener starts a run for every event.
TwoRunsNext ==
  \/ Len(calls) < MaxCalls /\
        QueueOfflineAction("saved-cases", PayloadOf(Len(calls) + 1), TRUE, TRUE)
  \/ ExecAdd
  \/ Len(runs) < MaxOverlapRuns /\ SyncEvent(SyncTag("saved-cases"))
  \/ \E r \in 1..MaxOverlapRuns : ListPending(r)
  \/ \E r \in 1..MaxOverlapRuns : ReplayAnswered(r)
  \/ \E r \in 1..MaxOverlapRuns : ReplayLost(r)
  \/ \E r \in 1..MaxOverlapRuns : ReplayFailed(r)
  \/ \E r \in 1..MaxOverlapRuns : RemoveReplayed(r)
  \/ GoOnline
  \/ GoOffline
  \/ Restart

TwoRunsSpec == Init /\ [][TwoRunsNext]_vars

\* Saved cases are queued and their sync is delivered while the network
\* comes and goes; the worker is not stopped and the store opens.
DrainNext ==
  \/ Len(calls) < MaxCalls /\ QueueOfflineAction("saved-cases", PayloadOf(Len(calls) + 1), TRUE, TRUE)
  \/ ExecAdd
  \/ Len(runs) < MaxRuns /\ SyncEventWith(SyncTag("saved-cases"), TRUE)
  \/ \E r \in 1..MaxRuns : ListPending(r)
  \/ \E r \in 1..MaxRuns : ReplayAnswered(r)
  \/ \E r \in 1..MaxRuns : ReplayFailed(r)
  \/ \E r \in 1..MaxRuns : RemoveReplayed(r)
  \/ GoOnline
  \/ GoOffline

\* Transactions run and the awaited steps of a run (the listing, the fetch
\* that resolves or rejects, the removal) are taken.
DrainFairness ==
  /\ WF_vars(ExecAdd)
  /\ \A r \in 1..MaxRuns :
       /\ WF_vars(ListPending(r))
       /\ WF_vars(ReplayAnswered(r) \/ ReplayFailed(r))
       /\ WF_vars(RemoveReplayed(r))

DrainSpec == Init /\ [][DrainNext]_vars /\ DrainFairness

\* ------------------------------------------------- the page: install prompt
\* canShowInstallPrompt(): deferredPrompt !== null
CanShowInstallPrompt(dp) == dp # 0

AfterChoiceKept(dp) == dp

\* `deferredPrompt = null` after the await of userChoice.
AfterChoice(dp) == 0

\* The dialog of event ev, if prompt() has opened one.
DialogOf(ev) == {i \in DOMAIN prompts.dialogs : prompts.dialogs[i].ev = ev}

\* The browser fires beforeinstallprompt; the listener keeps the event.
BeforeInstallPrompt ==
  /\ prompts.fired < MaxPrompts
  /\ deferredPrompt' = prompts.fired + 1
  /\ prompts' = [prompts EXCEPT !.fired = @ + 1, !.expect = TRUE]
  /\ UNCHANGED <<online, syncVars, cacheVars, pageVars, pushVars, ctlVars>>

\* The browser fires appinstalled; the listener drops the event.
AppInstalled ==
  /\ deferredPrompt' = 0
  /\ prompts' = [prompts EXCEPT !.expect = FALSE]
  /\ UNCHANGED <<online, syncVars, cacheVars, pageVars, pushVars, ctlVars>>

\* showInstallPrompt() up to its await. Without an event it returns false.
\* With one it calls prompt(), which opens the dialog of the event unless
\* one was opened for it before (the browser then rejects the promise that
\* prompt() returns, which the code does not look at), and awaits the
\* userChoice of the event.
ShowInstallPrompt ==
  /\ prompts.called < MaxShows
  /\ IF ~CanShowInstallPrompt(deferredPrompt)
     THEN /\ prompts' = [prompts EXCEPT !.called = @ + 1,
                                        !.log = Append(@, [ev |-> 0, result |-> FALSE]),
                                        !.expect = FALSE]
          /\ UNCHANGED deferredPrompt
     ELSE /\ prompts' = [prompts EXCEPT
                           !.called = @ + 1,
                           !.dialogs = IF DialogOf(deferredPrompt) = {}
                                       THEN Append(@, [ev |-> deferredPrompt, outcome |-> "open"])
                                       ELSE @,
                           !.awaiting = @ \cup {[call |-> prompts.called + 1,
                                                 ev |-> deferredPrompt]}]
          /\ UNCHANGED deferredPrompt
  /\ UNCHANGED <<online, syncVars, cacheVars, pageVars, pushVars, ctlVars>>

\* The user answers the dialog: userChoice of the event resolves.
UserChooses(i, outcome) ==
  /\ i \in DOMAIN prompts.dialogs
  /\ prompts.dialogs[i].outcome = "open"
  /\ prompts' = [prompts EXCEPT !.dialogs[i].outcome = outcome]
  /\ UNCHANGED <<deferredPrompt, online, syncVars, cacheVars, pageVars, pushVars, ctlVars>>

\* showInstallPrompt() after its await: deferredPrompt = null, and the
\* result is whether the outcome was 'accepted'.
ShowCompletes(c) ==
  /\ c \in prompts.awaiting
  /\ \E i \in DialogOf(c.ev) :
       /\ prompts.dialogs[i].outcome # "open"
       /\ prompts' = [prompts EXCEPT
                        !.awaiting = @ \ {c},
                        !.log = Append(@, [ev |-> c.ev,
                                           result |-> prompts.dialogs[i].outcome = "accepted"]),
                        !.expect = FALSE]
  /\ deferredPrompt' = AfterChoice(deferredPrompt)
  /\ UNCHANGED <<online, syncVars, cacheVars, pageVars, pushVars, ctlVars>>

PromptNext ==
  \/ BeforeInstallPrompt
  \/ AppInstalled
  \/ ShowInstallPrompt
  \/ \E i \in 1..MaxPrompts, outcome \in {"accepted", "dismissed"} : UserChooses(i, outcome)
  \/ \E c \in prompts.awaiting : ShowCompletes(c)

PromptSpec == Init /\ [][PromptNext]_vars

\* ------------------------------------------------- two generations at once
\* A newer version of the worker installs while this one is active: its
\* install listener opens the cache of its own name and fills it with its
\* precache list.
NewerKeys ==
  {Key(Req("self", <<>>, "GET", "cors")),
   Key(Req("self", <<"cases">>, "GET", "navigate")),
   Key(Req("self", <<"_next", "app.js">>, "GET", "cors"))}

NewerVersionInstalls(name, keys) ==
  /\ phase = "active"
  /\ name \notin DOMAIN others
  /\ others' = [n \in DOMAIN others \cup {name} |-> IF n = name THEN keys ELSE others[n]]
  /\ UNCHANGED <<online, syncVars, cache, puts, handlers, serverVer, good, putLog,
                 lastServed, phase, doomed, purged, precache, sideVars>>

GenerationRequests ==
  {Req("self", <<"api", "v1", "wards">>, "GET", "cors"),
   Req("self", <<"cases">>, "GET", "navigate"),
   Req("self", <<"_next", "app.js">>, "GET", "cors"),
   Req("self", <<"manifest.json">>, "GET", "cors")}

GenerationNext ==
  \/ \E h \in 1..MaxInFlight, req \in GenerationRequests : FetchEvent(h, req)
  \/ \E h \in 1..MaxInFlight, status \in PageStatuses : NetworkAnswers(h, status)
  \/ \E h \in 1..MaxInFlight : NetworkFails(h)
  \/ \E p \in puts : PutCompletes(p)
  \/ GoOnline
  \/ GoOffline
  \/ \E name \in NewerNames, keys \in SUBSET NewerKeys : NewerVersionInstalls(name, keys)

GenerationSpec == Init /\ [][GenerationNext]_vars

\* A new version of the worker is installed while tabs may be open that the
\* version before controls and caches of earlier generations exist.
LifecycleInit ==
  /\ online = TRUE
  /\ store = {}
  /\ keyGen = 0
  /\ txq = <<>>
  /\ calls = <<>>
  /\ syncTags = {}
  /\ runs = <<>>
  /\ posts = {}
  /\ enqLog = <<>>
  /\ delivered = {}
  /\ lastList = [type |-> "-", items |-> <<>>]
  /\ lastRemove = [id |-> 0, found |-> FALSE, rejected |-> FALSE]
  /\ cache = NoCaches
  /\ puts = {}
  /\ handlers = [h \in 1..MaxInFlight |-> Idle]
  /\ serverVer = 0
  /\ good = [p \in Paths |-> <<>>]
  /\ putLog = {}
  /\ lastServed = Served(NoReq, "none", 0, <<>>)
  /\ phase = "installing"
  /\ \E names \in SUBSET OldNames : others = [n \in names |-> OldKeys]
  /\ doomed = {}
  /\ purged = {}
  /\ precache = [a \in PRECACHE_ASSETS |-> Pending]
  /\ onlineSeen = FALSE
  /\ saved = {}
  /\ saveq = <<>>
  /\ saveLog = <<>>
  /\ shown = <<>>
  /\ clients = {}
  /\ lastClick = NoClick
  /\ control \in [Tabs -> {"none", "old"}]
  /\ skipped = FALSE
  /\ deferredPrompt = 0
  /\ prompts = NoPrompts

\* The life of one worker version: precache, install, activation with the
\* deletion of the other caches (each of which may fail), and the tabs that
\* open and close meanwhile.
LifecycleNext ==
  \/ \E a \in PRECACHE_ASSETS : PrecacheAnswered(a, 200)
  \/ InstallSettles
  \/ ActivateStarts
  \/ \E name \in OldNames : DeleteStale(name)
  \/ \E name \in OldNames : DeleteFails(name)
  \/ ActivateCompletes
  \/ \E t \in Tabs : Navigate(t)
  \/ \E t \in Tabs : TabCloses(t)

LifecycleSpec == LifecycleInit /\ [][LifecycleNext]_vars

\* =================================================================== claims
Answered2xx(a) == ~a.threw /\ Ok(a.status)

\* C1: a sync run removes a PendingAction only if its replay POST was
\* answered with a 2xx status: once a run has finished, the items it removed
\* are exactly the items whose replay was answered 2xx; an item answered
\* with another status stays queued.
C1_RemovedOnlyAfter2xx ==
  \A r \in DOMAIN runs :
    runs[r].pc = "done" =>
      \A i \in DOMAIN runs[r].log :
        runs[r].log[i].removed <=> Answered2xx(runs[r].log[i])

C2_AllAttempted ==
  \A r \in DOMAIN runs :
    /\ runs[r].pc \in {"list", "fetch", "remove", "done", "killed"}
    /\ (runs[r].pc = "done" /\ runs[r].listed) => Len(runs[r].log) = Len(runs[r].list)

C2_FailedStep ==
  \A r \in DOMAIN runs :
    LET n == Len(runs[r].log) IN
    (Len(runs'[r].log) = n + 1 /\ runs'[r].log[n + 1].threw)
      => /\ store' = store
         /\ runs'[r].pc = IF n + 1 < Len(runs[r].list) THEN "fetch" ELSE "done"

\* C2: when the replay of an item fails with a network error during a sync
\* run, the step leaves the queue unchanged and the run goes on to the next
\* listed item; a run that ends has attempted every item it listed, and it
\* never ends by raising an error.
C2_NetworkErrorSkipsItem == [](C2_AllAttempted) /\ [][C2_FailedStep]_vars

C2_Witness ==
  \E r \in DOMAIN runs :
    /\ runs[r].pc = "done"
    /\ Len(runs[r].log) = 2
    /\ runs[r].log[1].threw
    /\ runs[r].log[1].id \in Ids(store)
    /\ runs[r].log[2].removed

\* C3 as claimed: the remote never has a successful replay of b while an
\* older item a of the same kind has no successful replay yet.
C3_SuccessInEnqueueOrder ==
  \A p \in posts :
    Ok(p.status) =>
      \A i \in DOMAIN enqLog :
        (enqLog[i].type = runs[p.run].kind /\ enqLog[i].id < p.id)
          => \E q \in posts : q.id = enqLog[i].id /\ Ok(q.status)

\* C3, amended: within one sync run the items are attempted in enqueue
\* order: the listing is in ascending id order, the attempts follow the
\* listing item by item, and every POST of the run is one of its attempts; so
\* a run never sends b before it has attempted every older item it listed.
C3_AttemptsInEnqueueOrder ==
  \A r \in DOMAIN runs :
    LET run == runs[r] IN
    /\ \A i, j \in DOMAIN run.list : i < j => run.list[i].id < run.list[j].id
    /\ Len(run.log) <= Len(run.list)
    /\ \A i \in DOMAIN run.log : run.log[i].id = run.list[i].id
    /\ \A p \in posts : p.run = r => \E i \in DOMAIN run.log : run.log[i].id = p.id

C3_Witness ==
  \E r \in DOMAIN runs :
    /\ Len(runs[r].log) = 2
    /\ runs[r].log[1].threw
    /\ Answered2xx(runs[r].log[2])
    /\ \E p \in posts : p.id = runs[r].log[2].id /\ Ok(p.status)
    /\ ~ \E p \in posts : p.id = runs[r].log[1].id

\* The offline search-save scenario for a case save enqueued with `kind`:
\* one call, whose record is committed; the sync it registered is delivered;
\* every run has ended after listing, with each replay answered 2xx.
C4_Scenario(kind) ==
  /\ Len(calls) = 1
  /\ Len(enqLog) = 1
  /\ enqLog[1].type = kind
  /\ SyncTag(kind) \in delivered
  /\ \A r \in DOMAIN runs :
       /\ runs[r].pc = "done"
       /\ runs[r].listed
       /\ \A i \in DOMAIN runs[r].log : Answered2xx(runs[r].log[i])

C4_Outcome ==
  /\ store = {}
  /\ Cardinality(posts) = 1
  /\ \A p \in posts : /\ p.ep = "/api/v1/users/saved-cases"
                      /\ p.body = JsonText(enqLog[1].data)

\* C4 as claimed: a case save enqueued with kind "saved-case-create" is,
\* after its sync was delivered, removed from the queue, and the remote
\* saved-case endpoint has recorded exactly one POST with the original payload.
C4_SavedCaseCreateSynced == C4_Scenario("saved-case-create") => C4_Outcome

\* C4, amended: the same scenario with the kind the worker replays,
\* "saved-cases".
C4_SavedCasesSynced == C4_Scenario("saved-cases") => C4_Outcome

C4_Witness == C4_Scenario("saved-cases") /\ C4_Outcome

\* C5: when queueOfflineAction has resolved, the new PendingAction has been
\* committed to the store.
C5_DurableOnReturn ==
  \A c \in DOMAIN calls :
    calls[c] = "resolved" => \E i \in DOMAIN enqLog : enqLog[i].call = c

\* The record the store holds for an entry of enqLog.
Rec(e) == [id |-> e.id, type |-> e.type, data |-> e.data]

\* The records of a kind still queued, in the order they were enqueued.
QueuedInEnqueueOrder(type) ==
  LET Queued(e) == e.type = type /\ Rec(e) \in store
      sel == SelectSeq(enqLog, Queued)
  IN [i \in DOMAIN sel |-> Rec(sel[i])]

\* C6: listing a kind with getPendingActions returns exactly the queued
\* items of that kind, oldest first, whatever was enqueued in between and
\* whatever has been removed: after removing the first of N, the remaining
\* N-1 in their original order.
C6_ListInEnqueueOrder ==
  /\ \A type \in Types : GetPendingActions(store, type) = QueuedInEnqueueOrder(type)
  /\ \A i \in DOMAIN lastList.items :
       /\ lastList.items[i].type = lastList.type
       /\ \A j \in DOMAIN lastList.items : i < j => lastList.items[i].id < lastList.items[j].id

C6_Witness ==
  /\ Len(enqLog) = 3
  /\ enqLog[1].type = enqLog[3].type
  /\ enqLog[2].type # enqLog[1].type
  /\ Rec(enqLog[2]) \in store
  /\ lastRemove.id = enqLog[1].id
  /\ lastRemove.found
  /\ lastList.type = enqLog[1].type
  /\ lastList.items = <<Rec(enqLog[3])>>

\* C7: removePendingAction with an id that is not (or no longer) queued
\* resolves without an error and leaves every other record as it is, and
\* removing an id twice gives what removing it once gives.
C7_RemoveIdempotent ==
  /\ ~lastRemove.rejected
  /\ \A id \in 1..(keyGen + 1) :
       LET once == RemovePendingAction(store, id)
           twice == RemovePendingAction(once.store, id)
       IN /\ ~once.rejected
          /\ ~twice.rejected
          /\ twice.store = once.store
          /\ id \notin Ids(store) => once.store = store
          /\ \A x \in store : x.id # id => x \in once.store

C7_Witness ==
  /\ lastRemove.id \in 1..keyGen
  /\ ~lastRemove.found
  /\ ~lastRemove.rejected
  /\ store # {}

\* C8: the ids of PendingActions are unique and increase with every
\* enqueue: each added record gets an id greater than every id given before
\* it, removed records included, and every committed enqueue has a record of
\* its own, also when kind and payload are the same.
C8_IdsUniqueIncreasing ==
  /\ \A i, j \in DOMAIN enqLog :
       i < j => enqLog[i].id < enqLog[j].id /\ enqLog[i].call # enqLog[j].call
  /\ \A x \in store : x.id <= keyGen /\ \E i \in DOMAIN enqLog : Rec(enqLog[i]) = x
  /\ Cardinality(Ids(store)) = Cardinality(store)

C8_Witness ==
  /\ Len(enqLog) = 3
  /\ enqLog[1].type = enqLog[3].type
  /\ enqLog[1].data = enqLog[3].data
  /\ Rec(enqLog[1]) \in store
  /\ Rec(enqLog[3]) \in store
  /\ Rec(enqLog[2]) \notin store
  /\ lastRemove.id = enqLog[2].id


\* ------------------------------------------------------------------- C9
\* C9: for every cacheable GET route (an allow-listed API route or a
\* navigation), a request made while the network is unavailable, after an
\* earlier fetch of the same request succeeded, returns the body of that
\* earlier successful response unchanged.
OfflineOutcomes == {"cache", "offline-json", "offline-doc", "inline"}

C9_OfflineServesPrior ==
  (/\ lastServed.out \in OfflineOutcomes
   /\ Cacheable(lastServed.req)
   /\ good[lastServed.req.path] # <<>>)
    => /\ lastServed.out = "cache"
       /\ lastServed.body = good[lastServed.req.path]

\* ------------------------------------------------------------------- C10
\* C10: no cache entry is ever created or attempted for a non-GET request:
\* in every reachable state the cache holds only entries keyed by GET
\* requests, and no strategy has issued a cache write for a non-GET request.
C10_NoNonGetCacheWrite ==
  /\ \A k \in DOMAIN cache : k.method = "GET"
  /\ putLog \subseteq {"GET"}

\* ------------------------------------------------------------------- C11
\* C11: only successful responses are stored: in every reachable state each
\* cache entry, and each cache write under way, holds a response with a 2xx
\* status, whichever strategy issued it.
C11_OnlyOkStored ==
  /\ \A k \in DOMAIN cache : Ok(cache[k].status)
  /\ \A p \in puts : Ok(p.resp.status)

\* A cacheable GET was answered 404 while the cache holds entries the
\* strategies have written.
C11_Witness ==
  /\ lastServed.out = "network"
  /\ lastServed.status = 404
  /\ lastServed.req.method = "GET"
  /\ \E k \in DOMAIN cache : k.path \notin PRECACHE_ASSETS

\* ------------------------------------------------------------------- C12
\* The step in which handler h ends on a failed network fetch.
FailsStep(h) ==
  /\ handlers[h].pc # "idle"
  /\ handlers'[h].pc = "idle"
  /\ ~online

C12_Step ==
  \A h \in DOMAIN handlers :
    (/\ FailsStep(h)
     /\ handlers[h].pc = "api"
     /\ handlers[h].req.method = "GET"
     /\ Key(handlers[h].req) \notin DOMAIN cache)
      => lastServed' = Served(handlers[h].req, "offline-json", 503, <<"Offline">>)

\* C12: an API GET request that fails on the network and has no cached
\* entry is answered with the synthesized 503 JSON error response; the
\* handler does not reject.
C12_ApiMissGets503 == [][C12_Step]_vars

C12_Witness ==
  /\ lastServed.req = Req("self", <<"api", "v1", "wards">>, "GET", "cors")
  /\ lastServed.out = "offline-json"
  /\ lastServed.status = 503

\* ------------------------------------------------------------------- C13
\* C13: a non-GET API request that fails on the network is surfaced to the
\* caller as a rejection, never as a cached or synthesized response.
C13_NonGetFailureRejects ==
  (/\ lastServed.req.origin = "self"
   /\ StartsWithApi(lastServed.req.path)
   /\ lastServed.req.method # "GET"
   /\ lastServed.out # "network")
    => lastServed.out = "rejected"

\* ------------------------------------------------------------------- C14
C14_Step ==
  \A h \in DOMAIN handlers :
    (FailsStep(h) /\ handlers[h].pc = "nav") =>
      LET req == handlers[h].req
          page == Key(req)
          doc == [path |-> OFFLINE_URL, method |-> "GET"]
      IN lastServed' =
           IF page \in DOMAIN cache
           THEN Served(req, "cache", cache[page].status, cache[page].body)
           ELSE IF doc \in DOMAIN cache
           THEN Served(req, "offline-doc", cache[doc].status, cache[doc].body)
           ELSE Served(req, "inline", 503, <<"<h1>Offline</h1>">>)

\* C14: when a navigation request fails on the network, the handler returns
\* the cached copy of that page if there is one, otherwise the cached offline
\* document if there is one, and only otherwise the inline HTML with status
\* 503: the three are tried in this order.
C14_NavFallbackChain == [][C14_Step]_vars

\* The last tier was reached: neither the page nor the offline document was
\* in the cache.
C14_Witness ==
  /\ lastServed.req.mode = "navigate"
  /\ lastServed.out = "inline"
  /\ lastServed.status = 503

\* ------------------------------------------------------------------- C15
\* A same-origin request that is neither an API request nor a navigation.
IsStaticRequest(req) ==
  req.origin = "self" /\ ~StartsWithApi(req.path) /\ req.mode # "navigate"

C15_Step ==
  /\ \A h \in DOMAIN handlers :
       (handlers[h].pc = "idle" /\ handlers'[h].pc # "idle")
         => ~(IsStaticRequest(handlers'[h].req) /\ Key(handlers'[h].req) \in DOMAIN cache)
  /\ (lastServed' # lastServed /\ lastServed'.out = "cache-first")
       => /\ IsStaticRequest(lastServed'.req)
          /\ Key(lastServed'.req) \in DOMAIN cache
          /\ lastServed'.status = cache[Key(lastServed'.req)].status
          /\ lastServed'.body = cache[Key(lastServed'.req)].body
          /\ UNCHANGED <<cache, puts, handlers>>

\* C15: a static-asset request whose entry is in the cache is answered with
\* the cached response: no network fetch is started for it and the cache and
\* the cache writes under way stay as they are, online or offline.
C15_CacheFirstHit == [][C15_Step]_vars

C15_Witness ==
  /\ lastServed.out = "cache-first"
  /\ IsStaticRequest(lastServed.req)
  /\ lastServed.req.path \notin PRECACHE_ASSETS
  /\ ~online

\* ------------------------------------------------------------------- C16
C16_Step ==
  \A h \in DOMAIN handlers :
    (FailsStep(h) /\ handlers[h].pc = "static")
      => /\ lastServed' = Served(handlers[h].req, "rejected", 0, <<>>)
         /\ UNCHANGED <<cache, puts>>

\* C16: a static-asset request with no cached entry whose network fetch
\* fails is rejected with the error: no synthesized response is returned and
\* the cache is left as it is.
C16_StaticMissRejects == [][C16_Step]_vars

C16_Witness ==
  /\ lastServed.out = "rejected"
  /\ IsStaticRequest(lastServed.req)
  /\ Key(lastServed.req) \notin DOMAIN cache

\* ------------------------------------------------------------------- C17
\* C17: every same-origin GET request the worker handles resolves with a
\* response, also while the network is unavailable: none is rejected.
C17_GetNeverRejected ==
  (lastServed.req.origin = "self" /\ lastServed.req.method = "GET")
    => lastServed.out # "rejected"

\* ------------------------------------------------------------------- C18
C18_NoStrategy ==
  /\ \A h \in DOMAIN handlers : handlers[h].pc # "idle" => handlers[h].req.origin = "self"
  /\ lastServed.req.origin = "other" => lastServed.out = "passthrough"

C18_Step ==
  (lastServed' # lastServed /\ lastServed'.req.origin = "other")
    => UNCHANGED <<online, syncVars, cache, puts, handlers, serverVer, good, putLog, genVars, sideVars>>

\* C18: a request to another origin is passed through: the fetch listener
\* starts no strategy for it and supplies no response, and the step changes
\* neither the cache, the cache writes under way nor the queue.
C18_ForeignPassedThrough == [](C18_NoStrategy) /\ [][C18_Step]_vars

C18_Witness ==
  /\ lastServed.req.origin = "other"
  /\ StartsWithApi(lastServed.req.path)
  /\ lastServed.out = "passthrough"
  /\ \E k \in DOMAIN cache : k.path \notin PRECACHE_ASSETS

\* ------------------------------------------------------------------- C19
\* The strategy the precedence gives a same-origin request.
ExpectedStrategy(req) ==
  IF StartsWithApi(req.path) THEN "api"
  ELSE IF req.mode = "navigate" THEN "nav"
  ELSE "static"

\* The answers each strategy can give.
AnswersOf(strategy) ==
  CASE strategy = "api" -> {"network", "cache", "offline-json"}
    [] strategy = "nav" -> {"network", "cache", "offline-doc", "inline"}
    [] strategy = "static" -> {"cache-first", "network", "rejected"}

C19_OneStrategy ==
  /\ \A h \in DOMAIN handlers :
       handlers[h].pc # "idle" => handlers[h].pc = ExpectedStrategy(handlers[h].req)
  /\ lastServed.req.origin = "self"
       => lastServed.out \in AnswersOf(ExpectedStrategy(lastServed.req))

C19_Step ==
  \A h \in DOMAIN handlers :
    (handlers[h].pc = "idle" /\ handlers'[h].pc # "idle")
      => /\ handlers'[h].req.origin = "self"
         /\ handlers'[h].pc = ExpectedStrategy(handlers'[h].req)
         /\ \A g \in DOMAIN handlers : g # h => handlers'[g] = handlers[g]
         /\ lastServed' = lastServed

\* C19: every same-origin request is handled by exactly one strategy: the
\* API strategy if its path begins with the API prefix, also when its mode is
\* a navigation; otherwise the navigation strategy if its mode is a
\* navigation; otherwise the static strategy.
C19_DispatchPrecedence == [](C19_OneStrategy) /\ [][C19_Step]_vars

C19_Witness ==
  \E h \in DOMAIN handlers :
    /\ handlers[h].pc = "api"
    /\ handlers[h].req.mode = "navigate"

C21_Failed == \E a \in PRECACHE_ASSETS : precache[a] # Pending /\ ~Ok(precache[a])

C21_FailureLeavesNothing ==
  C21_Failed =>
    /\ phase \in {"installing", "redundant"}
    /\ \A a \in PRECACHE_ASSETS : PrecacheKey(a) \notin DOMAIN cache
    /\ runs = <<>> /\ posts = {} /\ delivered = {}
    /\ Cardinality(store) + Len(txq) = Len(calls)

C21_SuccessCachesAll ==
  phase = "installed" =>
    \A a \in PRECACHE_ASSETS :
      PrecacheKey(a) \in DOMAIN cache /\ Ok(cache[PrecacheKey(a)].status)

C21_RedundantStep == phase = "redundant" => phase' = "redundant" /\ cache' = cache

C21_InstallAllOrNothing ==
  [](C21_FailureLeavesNothing /\ C21_SuccessCachesAll) /\ [][C21_RedundantStep]_vars

C21_Witness ==
  /\ phase = "redundant"
  /\ \E a \in PRECACHE_ASSETS : Ok(precache[a])
  /\ \E a \in PRECACHE_ASSETS : precache[a] = NetworkError
  /\ store # {}
  /\ syncTags # {}

\* C22: a push event without a payload, or with a payload that is not
\* JSON, displays exactly one notification; without a payload its title,
\* body, icon and badge are the defaults, with a text payload its body is
\* the text and its title, icon and badge are the defaults.
C22_Shown(e) ==
  /\ e.payload.kind = "none" => \A f \in NoteFields : e.note[f] = Defaults[f]
  /\ e.payload.kind = "text" =>
       /\ e.note.body = e.payload.text
       /\ \A f \in NoteFields \ {"body"} : e.note[f] = Defaults[f]

C22_Step ==
  shown' # shown =>
    /\ Len(shown') = Len(shown) + 1
    /\ SubSeq(shown', 1, Len(shown)) = shown
    /\ C22_Shown(shown'[Len(shown')])

C22_EmptyOrTextPush == [][C22_Step]_vars

C22_Witness ==
  /\ Len(shown) = 2
  /\ shown[1].payload.kind = "none"
  /\ shown[2].payload = TextPayload("Hello")
  /\ shown[2].note.body = "Hello"

\* C23: for a push whose payload is a JSON object, each of title, body, icon
\* and badge of the notification displayed is the payload's value when the
\* payload has the member and the default when it has not.
C23_JsonFieldsDefaultIndependently ==
  \A i \in DOMAIN shown :
    shown[i].payload.kind = "json" =>
      \A f \in NoteFields :
        shown[i].note[f] = IF f \in DOMAIN shown[i].payload.doc
                           THEN shown[i].payload.doc[f]
                           ELSE Defaults[f]

\* C24: a notification click dismisses the notification and does exactly
\* one of two things: when a window client open at the click displays the
\* target URL (data.url, or the root), one such client is focused and no
\* window is opened; otherwise one window is opened on the target URL.
C24_FocusOrOpen ==
  lastClick.closed =>
    LET target == Resolve(lastClick.target)
    IN IF target \in lastClick.before
       THEN lastClick.focused = {target} /\ lastClick.opened = {}
       ELSE lastClick.focused = {} /\ lastClick.opened = {target}

\* C25: the saved-cases store holds at most one record per reference; the
\* record of a reference is the one written by the last save of that
\* reference whose transaction has run (so, once every transaction has run,
\* by the last save of it); and a step changes the record of no reference
\* but the one being saved.
C25_Accepted == SelectSeq(saveLog, LAMBDA e : e.outcome = "resolved")

C25_Committed == SubSeq(C25_Accepted, 1, Len(C25_Accepted) - Len(saveq))

C25_OnePerKey == \A x, y \in saved : x.reference = y.reference => x = y

C25_LastWriteWins ==
  \A ref \in References :
    LET writes == {i \in DOMAIN C25_Committed : C25_Committed[i].rec.reference = ref}
    IN IF writes = {}
       THEN \A x \in saved : x.reference # ref
       ELSE LET last == CHOOSE i \in writes : \A j \in writes : j <= i
            IN \A x \in saved : x.reference = ref => x = C25_Committed[last].rec

C25_Step ==
  saved' # saved =>
    /\ saveq # <<>>
    /\ \A x \in saved : x.reference # Head(saveq).reference => x \in saved'
    /\ \A x \in saved' : x.reference # Head(saveq).reference => x \in saved

C25_OneRecordPerKey ==
  [](C25_OnePerKey /\ C25_LastWriteWins) /\ [][C25_Step]_vars

C25_Witness ==
  /\ saveq = <<>>
  /\ Len(C25_Accepted) = 3
  /\ C25_Accepted[1].rec.reference = C25_Accepted[3].rec.reference
  /\ C25_Accepted[1].rec.reference # C25_Accepted[2].rec.reference
  /\ Cardinality(saved) = 2
  /\ C25_Accepted[3].rec \in saved

\* C26: while the database cannot be opened, a sync run ends at once, having
\* listed, posted and removed nothing; an enqueue or a save rejects and
\* leaves the queue, the saved cases, the cache and the worker as they were;
\* and the three fetch strategies answer as they do otherwise: from the
\* network when it answers, from their fallbacks when it fails.
C26_RunsEndQuietly ==
  /\ \A r \in DOMAIN runs :
        runs[r].pc = "done" /\ ~runs[r].listed /\ runs[r].list = <<>> /\ runs[r].log = <<>>
  /\ posts = {}
  /\ store = {QueuedBefore}

C26_CallsReportFailure ==
  /\ \A i \in DOMAIN calls : i > 1 => calls[i] = "rejected"
  /\ \A i \in DOMAIN saveLog : saveLog[i].outcome = "rejected"
  /\ txq = <<>> /\ saveq = <<>> /\ saved = {}

C26_RejectedStep ==
  (calls' # calls \/ saveLog' # saveLog) =>
    UNCHANGED <<online, store, keyGen, txq, syncTags, runs, posts, cacheVars, saved, saveq>>

C26_AnsweredStep ==
  \A h \in DOMAIN handlers :
    (handlers[h].pc \in {"api", "nav", "static"} /\ handlers'[h].pc = "idle" /\ online) =>
      /\ lastServed'.req = handlers[h].req
      /\ lastServed'.out = "network"
      /\ lastServed'.body = Body(handlers[h].req.path, serverVer)

C26_OnlyOfflineFeaturesLost ==
  /\ [](C26_RunsEndQuietly /\ C26_CallsReportFailure)
  /\ [][C26_RejectedStep /\ C26_AnsweredStep]_vars
  /\ [][C12_Step /\ C14_Step /\ C15_Step /\ C16_Step]_vars

C26_Witness ==
  /\ Len(runs) = 1
  /\ Len(calls) = 2
  /\ Len(saveLog) = 1
  /\ lastServed.out = "network"
  /\ lastServed.status = 200
  /\ \E h \in DOMAIN handlers : handlers[h].pc # "idle"

\* C27: there is one sync tag per kind, sync-<kind>. An enqueue of kind K
\* registers the tag sync-K and no other; a run started by sync-K lists
\* exactly the queued items of kind K, posts and removes only items it
\* listed; and every kind that was enqueued has a tag the worker answers
\* with a run of that kind.
C27_RegisterStep ==
  Len(calls') > Len(calls) =>
    \/ syncTags' = syncTags
    \/ /\ txq' # txq
       /\ syncTags' = syncTags \cup {SyncTag(txq'[Len(txq')].type)}

C27_ListStep ==
  \A r \in DOMAIN runs :
    (~runs[r].listed /\ runs'[r].listed) =>
      {runs'[r].list[i] : i \in DOMAIN runs'[r].list} = {x \in store : x.type = runs[r].kind}

C27_RemoveStep ==
  \A x \in store \ store' :
    \E r \in DOMAIN runs : runs[r].pc = "remove" /\ x.type = runs[r].kind

C27_OnlyOwnKind ==
  /\ \A r \in DOMAIN runs : \A i \in DOMAIN runs[r].list : runs[r].list[i].type = runs[r].kind
  /\ \A p \in posts : \E i \in DOMAIN runs[p.run].list : runs[p.run].list[i].id = p.id

C27_EveryKindHandled ==
  \A i \in DOMAIN enqLog : SyncKinds(SyncTag(enqLog[i].type)) = {enqLog[i].type}

C27_OneTagPerKind ==
  /\ [](C27_OnlyOwnKind /\ C27_EveryKindHandled)
  /\ [][C27_RegisterStep /\ C27_ListStep /\ C27_RemoveStep]_vars

\* C27, amended: the same, but the worker answers the tags of two kinds
\* only, "saved-cases" and "search-history"; the tag of any other kind
\* starts no run.
C27_SyncStep ==
  \A tag \in syncTags \ syncTags' :
    IF tag \in {SyncTag(k) : k \in WorkerKinds}
    THEN /\ Len(runs') = Len(runs) + 1
         /\ tag = SyncTag(runs'[Len(runs')].kind)
    ELSE runs' = runs

C27_HandledKinds ==
  /\ [](C27_OnlyOwnKind)
  /\ [][C27_RegisterStep /\ C27_ListStep /\ C27_RemoveStep /\ C27_SyncStep]_vars

C27_Witness ==
  \E r \in DOMAIN runs :
    /\ runs[r].pc = "done"
    /\ Len(runs[r].log) = 1
    /\ runs[r].log[1].removed
    /\ \E x \in store : x.type \in WorkerKinds \ {runs[r].kind}

\* C28: reconciliation is started by either signal. A sync event for the tag
\* of a kind starts a run of that kind; and once the page has seen the
\* network return while items the worker replays were queued, a sync run
\* begins.
C28_SyncEventStartsRun ==
  \A tag \in syncTags \ syncTags' :
    tag \in {SyncTag(k) : k \in WorkerKinds} =>
      Len(runs') = Len(runs) + 1 /\ tag = SyncTag(runs'[Len(runs')].kind)

C28_EitherSignalStartsRun ==
  /\ [][C28_SyncEventStartsRun]_vars
  /\ ((onlineSeen /\ runs = <<>>) ~> (runs # <<>>))

\* C29: when a strategy hands the caller a 2xx response of the network that
\* it caches, the cache holds, at that moment, the entry for the request
\* with that response.
C29_Step ==
  \A h \in DOMAIN handlers :
    (/\ handlers[h].pc \in {"api", "nav", "static"}
     /\ handlers'[h].pc = "idle"
     /\ lastServed'.out = "network"
     /\ Ok(lastServed'.status)
     /\ WillPut(handlers[h].pc, handlers[h].req, lastServed'.status))
      => /\ Key(handlers[h].req) \in DOMAIN cache'
         /\ cache'[Key(handlers[h].req)].body = lastServed'.body

C29_StoredBeforeReturned == [][C29_Step]_vars

\* C30: for a network-first cacheable GET request, once every handler and
\* every cache write has finished, the entry of the request holds the
\* response of the most recent successful fetch of it.
C30_LatestFetchWins ==
  (puts = {} /\ \A h \in DOMAIN handlers : handlers[h].pc = "idle") =>
    \A req \in OverlapRequests :
      (Key(req) \in DOMAIN cache /\ good[req.path] # <<>>) =>
        cache[Key(req)].body = good[req.path]

\* C31: a PendingAction is POSTed successfully more than once only after a
\* lost confirmation: the run that made one of the successful POSTs saw the
\* fetch fail, or was stopped before it had removed the item.
C31_LostConfirmation(id) ==
  \E p \in posts :
    /\ p.id = id
    /\ Ok(p.status)
    /\ \E i \in DOMAIN runs[p.run].log :
         /\ runs[p.run].log[i].id = id
         /\ \/ runs[p.run].log[i].threw
            \/ runs[p.run].pc = "killed" /\ ~runs[p.run].log[i].removed

C31_DuplicateOnlyAfterLoss ==
  \A p, q \in posts :
    (p # q /\ p.id = q.id /\ Ok(p.status) /\ Ok(q.status)) => C31_LostConfirmation(p.id)

\* C32: every response a strategy serves from the cache (API fallback,
\* navigation fallback, offline document, static hit) is an entry of the
\* cache named CACHE_NAME, never one that only another generation holds.
C32_ServedFromCurrentGeneration ==
  lastServed.out \in {"cache", "offline-doc", "cache-first"} =>
    \E k \in DOMAIN cache :
      /\ k.path = (IF lastServed.out = "offline-doc" THEN OFFLINE_URL ELSE lastServed.req.path)
      /\ lastServed.body \in {cache[k].body} \cup {Body(k.path, v) : v \in 0..serverVer}

\* C33: no tab is controlled by this worker while a cache of another
\* generation still exists: control is taken only once every cache that is
\* not CACHE_NAME has been deleted, and not at all when a deletion fails.
C33_NoControlWhileStale ==
  (\E t \in Tabs : control[t] = "this") => StaleNames(CachesKeys(others)) = {}

\* C34: the worker leaves the waiting state only through what happens
\* outside it, that is once no tab is controlled by the version before, and
\* its phases only move forward.
PhaseRank(p) ==
  CASE p = "installing" -> 0
    [] p = "installed" -> 1
    [] p = "activating" -> 2
    [] p = "active" -> 3
    [] p = "redundant" -> 4

C34_Step ==
  /\ PhaseRank(phase') >= PhaseRank(phase)
  /\ (phase = "installed" /\ phase' = "activating") => \A t \in Tabs : control[t] # "old"

C34_WaitingEndsFromOutside == [][C34_Step]_vars

\* C35: every sync run ends. It lists the queue once, attempts the listed
\* items one by one in the order of the list whatever the outcome of each
\* attempt, each exactly once, and attempts no item that is not on its list,
\* so none that was enqueued after the listing.
C35_AttemptsFollowList ==
  \A r \in DOMAIN runs :
    /\ Len(runs[r].log) <= Len(runs[r].list)
    /\ \A i \in DOMAIN runs[r].log : runs[r].log[i].id = runs[r].list[i].id
    /\ \A i, j \in DOMAIN runs[r].log : i # j => runs[r].log[i].id # runs[r].log[j].id
    /\ (runs[r].pc = "done" /\ runs[r].listed) => Len(runs[r].log) = Len(runs[r].list)

C35_ListedOnceStep ==
  \A r \in DOMAIN runs :
    /\ runs[r].listed => (runs'[r].listed /\ runs'[r].list = runs[r].list)
    /\ runs'[r].list # runs[r].list => runs[r].pc = "list"
    /\ \A i \in DOMAIN runs[r].log : runs'[r].log[i].id = runs[r].log[i].id

C35_RunTerminates ==
  /\ \A r \in 1..MaxRuns : (r \in DOMAIN runs) ~> (r \in DOMAIN runs /\ runs[r].pc = "done")
  /\ [](C35_AttemptsFollowList)
  /\ [][C35_ListedOnceStep]_vars

C35_Witness ==
  \E r \in DOMAIN runs :
    /\ runs[r].pc = "done"
    /\ Len(runs[r].list) >= 1
    /\ Len(runs[r].log) = Len(runs[r].list)
    /\ \E i \in DOMAIN enqLog :
         /\ enqLog[i].type = runs[r].kind
         /\ enqLog[i].id \in Ids(store)
         /\ \A k \in DOMAIN runs[r].list : runs[r].list[k].id # enqLog[i].id

\* C36: when a sync for a kind is delivered and the network answers every
\* replay of the run with success, every PendingAction of that kind that was
\* queued when the run started is eventually removed from the queue.
C36_CleanRun(r) ==
  \A i \in DOMAIN runs[r].log : ~runs[r].log[i].threw /\ Ok(runs[r].log[i].status)

C36_QueuedAtStart(r, id) ==
  /\ r \in DOMAIN runs
  /\ runs[r].pc = "list"
  /\ \E x \in store : x.id = id /\ x.type = runs[r].kind

C36_Drained(r, id) ==
  /\ r \in DOMAIN runs
  /\ runs[r].pc = "done"
  /\ C36_CleanRun(r) => id \notin Ids(store)

C37_Step ==
  \A h \in DOMAIN handlers :
    (handlers[h].pc \in {"api", "nav"} /\ handlers'[h].pc = "idle" /\ online)
      => /\ lastServed'.req = handlers[h].req
         /\ lastServed'.out = "network"
         /\ lastServed'.status \in PageStatuses
         /\ lastServed'.body = Body(handlers[h].req.path, serverVer)
         /\ cache' = cache
         /\ ~Ok(lastServed'.status) => puts' = puts

C37_LiveAnswerReturned == [][C37_Step]_vars

\* A page load answered 404 by the network while the cache holds an entry
\* for it with other content.
C37_Witness ==
  /\ lastServed.out = "network"
  /\ lastServed.status = 404
  /\ lastServed.req \in NavRequests
  /\ Key(lastServed.req) \in DOMAIN cache
  /\ cache[Key(lastServed.req)].body # lastServed.body
  /\ puts = {}

\* C38: queue operations issued at the same time do not interfere. Every
\* enqueue adds one record under an id no record had before and leaves all
\* other records as they are, so two enqueues both persist under distinct
\* ids; a removal deletes the record with the given id and no other.
C38_DistinctIds ==
  /\ \A i, j \in DOMAIN enqLog : i # j => enqLog[i].id # enqLog[j].id
  /\ \A x, y \in store : x.id = y.id => x = y

C38_Step ==
  /\ Len(enqLog') > Len(enqLog)
       => LET e == enqLog'[Len(enqLog')] IN
          /\ Len(enqLog') = Len(enqLog) + 1
          /\ e.id \notin Ids(store)
          /\ store' = store \cup {[id |-> e.id, type |-> e.type, data |-> e.data]}
  /\ (Len(enqLog') = Len(enqLog) /\ store' # store)
       => store' = {r \in store : r.id # lastRemove'.id}

C38_QueueOpsIndependent == [](C38_DistinctIds) /\ [][C38_Step]_vars

\* Three enqueues and the removal of the first record: the two others are
\* in the store.
C38_Witness ==
  /\ Len(enqLog) = 3
  /\ lastRemove.found
  /\ lastRemove.id = enqLog[1].id
  /\ Ids(store) = {enqLog[2].id, enqLog[3].id}
  /\ Cardinality(store) = 2

\* C39: the API strategy writes a response to the cache only for a route of
\* API_CACHE_ROUTES. For an API GET outside it there is never a cache entry
\* nor a cache write under way, and when the network fails the request is
\* answered with the synthesized 503, never with a cached response.
C39_NoEntryOffList ==
  /\ \A k \in DOMAIN cache : StartsWithApi(k.path) => ShouldCache(k.path)
  /\ \A p \in puts : StartsWithApi(p.req.path) => ShouldCache(p.req.path)

C39_Step ==
  \A h \in DOMAIN handlers :
    (/\ FailsStep(h)
     /\ handlers[h].pc = "api"
     /\ handlers[h].req.method = "GET"
     /\ ~ShouldCache(handlers[h].req.path))
      => lastServed' = Served(handlers[h].req, "offline-json", 503, <<"Offline">>)

C39_OnlyAllowListCached == [](C39_NoEntryOffList) /\ [][C39_Step]_vars

\* An API read outside the allow-list that the network answered with
\* success before is answered 503 once the network is down.
C39_Witness ==
  /\ lastServed.req = Req("self", <<"api", "v1", "users", "saved-cases">>, "GET", "cors")
  /\ lastServed.out = "offline-json"
  /\ lastServed.status = 503
  /\ good[lastServed.req.path] # <<>>

\* C40: canShowInstallPrompt is true exactly when a beforeinstallprompt
\* event was captured and neither appinstalled nor the completion of a
\* showInstallPrompt call came after the latest capture. A call without a
\* captured event returns false and opens no dialog; no event's dialog is
\* opened twice; a call that went through the dialog leaves no event
\* captured and returns whether the user accepted.
C40_FlagMatchesHistory ==
  /\ CanShowInstallPrompt(deferredPrompt) <=> prompts.expect
  /\ \A i, j \in DOMAIN prompts.dialogs :
       i # j => prompts.dialogs[i].ev # prompts.dialogs[j].ev
  /\ \A i \in DOMAIN prompts.log : prompts.log[i].ev = 0 => ~prompts.log[i].result

C40_Step ==
  /\ (prompts'.called > prompts.called /\ ~CanShowInstallPrompt(deferredPrompt))
       => /\ prompts'.dialogs = prompts.dialogs
          /\ prompts'.awaiting = prompts.awaiting
          /\ prompts'.log = Append(prompts.log, [ev |-> 0, result |-> FALSE])
  /\ (Len(prompts'.log) > Len(prompts.log) /\ prompts'.log[Len(prompts'.log)].ev # 0)
       => LET e == prompts'.log[Len(prompts'.log)] IN
          /\ ~CanShowInstallPrompt(deferredPrompt')
          /\ \E i \in DOMAIN prompts.dialogs :
               /\ prompts.dialogs[i].ev = e.ev
               /\ prompts.dialogs[i].outcome \in {"accepted", "dismissed"}
               /\ e.result = (prompts.dialogs[i].outcome = "accepted")

C40_InstallPromptState == [](C40_FlagMatchesHistory) /\ [][C40_Step]_vars

\* The dialog of a first event was answered without an install and the
\* call has returned false; a second event has been captured since.
C40_Witness ==
  /\ Len(prompts.log) = 1
  /\ prompts.log[1].ev = 1
  /\ ~prompts.log[1].result
  /\ prompts.fired = 2
  /\ CanShowInstallPrompt(deferredPrompt)
  /\ Len(prompts.dialogs) = 1

====
